---- MODULE Spec2Model ----
(***************************************************************************)
(* Model of the Vedic birth-chart calculation engine                       *)
(* (packages/backend/src/services/astrology/calculator.ts and types.ts)    *)
(* and of the services around it: the POST /generate route, the reading    *)
(* cache, the chat history and the start of a trial subscription.          *)
(*                                                                         *)
(* Numbers.  The engine computes with IEEE doubles.  The model computes    *)
(* with exact integers on a fixed grid:                                    *)
(*   - an angle is an integer number of units, one unit = 1/(3*Res) of a   *)
(*     degree, so that the mansion span 360/27 = 40/3 degrees and its      *)
(*     quarter are whole numbers of units;                                 *)
(*   - a Date is its time value in whole minutes since 1970-01-01T00:00 of *)
(*     the process's local time, taken to have a constant UTC offset;      *)
(*   - a quotient that the code keeps as a double (fractionElapsed,        *)
(*     remainingYears) is kept as an exact numerator over a denominator;   *)
(*   - the double 360 / 27 is 13.333333333333334, above 40/3: a whole      *)
(*     multiple of 40 degrees is a double that lies just below a whole     *)
(*     number of such spans, while its quotient by the span rounds to the  *)
(*     whole number (SpanRemainder).                                       *)
(***************************************************************************)
EXTENDS Integers, Sequences, FiniteSets

VARIABLES
    call,             \* the function that was called
    returned,         \* whether it has returned
    DASHA_SEQUENCE,   \* types.ts module-level table (a mutable array)
    moonLongitude,    \* calculateDashas: argument
    birthDate,        \* calculateDashas: argument (a Date)
    dashas,           \* calculateDashas: returned list
    planetLongitude,      \* getHouse: argument
    ascendantSignIndex,   \* getHouse: argument
    house,                \* getHouse: returned house
    planetArg,               \* calculatePlanetLongitude: argument
    jdArg,                   \* calculatePlanetLongitude: argument (a day count)
    position,             \* calculatePlanetLongitude: returned {longitude, isRetrograde}
    tropicalArg,    \* toSidereal: argument
    ayanamsaArg,             \* toSidereal: argument
    sidereal,             \* toSidereal: returned longitude
    request,              \* calculateChart: argument (a ChartRequest)
    chart,                \* calculateChart: returned BirthChart
    longitudeArg,         \* getSign, getNakshatra: argument
    signResult,           \* getSign: returned {sign, signIndex, degree}
    nakshatraResult,      \* getNakshatra: returned {nakshatra, pada}
    dayCountArg,          \* calculateLahiriAyanamsa: argument
    ayanamsaResult,       \* calculateLahiriAyanamsa: returned angle
    requests,             \* concurrent invocations of calculateChart: their arguments
    charts,               \* concurrent invocations of calculateChart: their results
    dateArg,              \* dateToJD: arguments <<year, month, day, hour>>
    dayCountResult,       \* dateToJD: returned day count
    body,                 \* POST /generate: the request body
    response,             \* POST /generate: the response sent
    chartStorage,         \* routes/chart.ts module-level Map of charts by id
    readingCache,         \* reading service module-level Map of cached readings
    readings,             \* generateReading: the calls made, by caller
    chatSessions,         \* chat service module-level Map of histories by session key
    added,                \* chat service: messages added per session since its last clear
    users,                \* the user table of the database
    trials                \* startTrial: the calls made, by caller

dashaVars == <<moonLongitude, birthDate, dashas>>
houseVars == <<planetLongitude, ascendantSignIndex, house>>
longitudeVars == <<planetArg, jdArg, position, tropicalArg, ayanamsaArg, sidereal>>
chartVars == <<request, chart>>
classifyVars == <<longitudeArg, signResult, nakshatraResult>>
ayanamsaVars == <<dayCountArg, ayanamsaResult>>
concurrentVars == <<requests, charts>>
dateVars == <<dateArg, dayCountResult>>
routeVars == <<body, response, chartStorage>>
readingVars == <<readingCache, readings>>
chatVars == <<chatSessions, added>>
trialVars == <<users, trials>>
serviceVars == <<dateVars, routeVars, readingVars, chatVars, trialVars>>
otherVars == <<classifyVars, ayanamsaVars, concurrentVars, serviceVars>>
vars == <<call, returned, DASHA_SEQUENCE, dashaVars, houseVars, longitudeVars, chartVars,
          otherVars>>

\* the value of a variable of a call frame that does not exist
Unset == 0

----------------------------------------------------------------------------
(* Bounds of the model *)

\* angle resolution: units per third of a degree
Res == 1
\* birth years range over 1999 .. 1999 + YearSpan
YearSpan == 1
\* messages added to one chat session between two clears
MaxAdded == 52

----------------------------------------------------------------------------
(* Units *)

Scale == 3 * Res
\* d whole degrees, in units
Deg(d) == d * Scale
FullCircle == Deg(360)
MinutesPerDay == 24 * 60

\* JavaScript's % : the remainder takes the sign of the dividend
JSMod(a, n) == IF a >= 0 THEN a % n ELSE -((-a) % n)

----------------------------------------------------------------------------
(* types.ts *)

ZODIAC_SIGNS ==
    << "Aries", "Taurus", "Gemini", "Cancer", "Leo", "Virgo",
       "Libra", "Scorpio", "Sagittarius", "Capricorn", "Aquarius", "Pisces" >>

NAKSHATRAS ==
    << "Ashwini", "Bharani", "Krittika", "Rohini", "Mrigashira", "Ardra",
       "Punarvasu", "Pushya", "Ashlesha", "Magha", "Purva Phalguni", "Uttara Phalguni",
       "Hasta", "Chitra", "Swati", "Vishakha", "Anuradha", "Jyeshtha",
       "Mula", "Purva Ashadha", "Uttara Ashadha", "Shravana", "Dhanishta", "Shatabhisha",
       "Purva Bhadrapada", "Uttara Bhadrapada", "Revati" >>

PLANETS ==
    << "Sun", "Moon", "Mars", "Mercury", "Jupiter", "Venus", "Saturn", "Rahu", "Ketu" >>

\* a table with one body entered twice (Venus in place of the Sun)
DashaTableRepeated ==
    << [planet |-> "Ketu", years |-> 7],
       [planet |-> "Venus", years |-> 20],
       [planet |-> "Venus", years |-> 6],
       [planet |-> "Moon", years |-> 10],
       [planet |-> "Mars", years |-> 7],
       [planet |-> "Rahu", years |-> 18],
       [planet |-> "Jupiter", years |-> 16],
       [planet |-> "Saturn", years |-> 19],
       [planet |-> "Mercury", years |-> 17] >>

\* the initial value of DASHA_SEQUENCE
DashaTable ==
    << [planet |-> "Ketu", years |-> 7],
       [planet |-> "Venus", years |-> 20],
       [planet |-> "Sun", years |-> 6],
       [planet |-> "Moon", years |-> 10],
       [planet |-> "Mars", years |-> 7],
       [planet |-> "Rahu", years |-> 18],
       [planet |-> "Jupiter", years |-> 16],
       [planet |-> "Saturn", years |-> 19],
       [planet |-> "Mercury", years |-> 17] >>

TOTAL_DASHA_YEARS == 120

\* Array.prototype.indexOf: the 0-based index of the first occurrence, -1 if none
IndexOf(arr, x) ==
    IF \E i \in 1..Len(arr) : arr[i] = x
    THEN (CHOOSE i \in 1..Len(arr) : arr[i] = x /\ \A j \in 1..(i - 1) : arr[j] # x) - 1
    ELSE -1

----------------------------------------------------------------------------
(* Date: the time value and the local-time fields (ECMAScript 21.4.1) *)

IsLeap(y) == (y % 4 = 0 /\ y % 100 # 0) \/ y % 400 = 0

DaysInMonth(y, m) ==
    IF m = 2 THEN (IF IsLeap(y) THEN 29 ELSE 28)
    ELSE IF m \in {4, 6, 9, 11} THEN 30 ELSE 31

\* days from 1970-01-01 to the first day of year y
DayFromYear(y) ==
    365 * (y - 1970) + ((y - 1969) \div 4) - ((y - 1901) \div 100) + ((y - 1601) \div 400)

\* days of a common year before its month m (1..12)
CumulativeDays == <<0, 31, 59, 90, 120, 151, 181, 212, 243, 273, 304, 334>>

\* days of year y before its month m (1..12)
DaysBeforeMonth(y, m) ==
    CumulativeDays[m] + (IF m > 2 /\ IsLeap(y) THEN 1 ELSE 0)

\* MakeDay(year, month, date): month is 0-based and may lie outside 0..11,
\* date may lie outside the month; both carry over
MakeDay(year, month, date) ==
    LET ym == year + (month \div 12)
        mn == month % 12
    IN  DayFromYear(ym) + DaysBeforeMonth(ym, mn + 1) + date - 1

\* MakeDate(day, time)
MakeDate(day, time) == day * MinutesPerDay + time

Day(t) == t \div MinutesPerDay
TimeWithinDay(t) == t % MinutesPerDay

RECURSIVE YearFromDay(_, _)
YearFromDay(d, y) ==
    IF DayFromYear(y) > d THEN YearFromDay(d, y - 1)
    ELSE IF DayFromYear(y + 1) <= d THEN YearFromDay(d, y + 1)
    ELSE y

getFullYear(t) == YearFromDay(Day(t), 1970 + (Day(t) \div 365))

RECURSIVE MonthFromDayInYear(_, _, _)
\* the month m (1..12) of year y that holds day diy of the year, searched from m
MonthFromDayInYear(y, diy, m) ==
    IF m = 12 \/ diy < DaysBeforeMonth(y, m + 1) THEN m
    ELSE MonthFromDayInYear(y, diy, m + 1)

\* 0-based month
getMonth(t) ==
    LET y == getFullYear(t)
    IN  MonthFromDayInYear(y, Day(t) - DayFromYear(y), 1) - 1

getDate(t) ==
    LET y == getFullYear(t)
    IN  Day(t) - DayFromYear(y) - DaysBeforeMonth(y, getMonth(t) + 1) + 1

\* new Date(year, monthIndex, day, hours, minutes)
NewDate(year, monthIndex, day, hours, minutes) ==
    MakeDate(MakeDay(year, monthIndex, day), hours * 60 + minutes)

\* Date.prototype.setFullYear(year): month, date and time of day are kept
setFullYear(t, year) ==
    MakeDate(MakeDay(year, getMonth(t), getDate(t)), TimeWithinDay(t))

\* Date.prototype.setMonth(month): year, date and time of day are kept
setMonth(t, month) ==
    MakeDate(MakeDay(getFullYear(t), month, getDate(t)), TimeWithinDay(t))

----------------------------------------------------------------------------
(* Arithmetic on the grid *)

Abs(x) == IF x < 0 THEN -x ELSE x

\* d is multiplied digit by digit in this base
DigitBase == 128

RECURSIVE MulDivQR(_, _, _, _)
\* <<q % m, r>> with a * d = q * c + r and 0 <= r < c, for a >= 0, d >= 0, c > 0,
\* by the digits of d so that no intermediate value leaves the integer range
\* (a and c below 2^24)
MulDivQR(a, d, c, m) ==
    IF d = 0 THEN <<0, 0>>
    ELSE LET h == MulDivQR(a, d \div DigitBase, c, m)
             low == a * (d % DigitBase)
             r2 == DigitBase * h[2] + (low % c)
             q2 == DigitBase * h[1] + (low \div c) + (r2 \div c)
         IN  <<q2 % m, r2 % c>>

\* a bound on the quotients of MulDiv
QuotientRange == 1000000000

\* Math.floor(a * d / c), for c > 0; p is the triple of the operands
MulDiv(a, d, c) ==
    LET Floor(p) ==
            LET qr == MulDivQR(Abs(p[1]), Abs(p[2]), p[3], QuotientRange)
            IN  IF (p[1] < 0) = (p[2] < 0) THEN qr[1]
                ELSE -(qr[1] + (IF qr[2] > 0 THEN 1 ELSE 0))
    IN  Floor(<<a, d, c>>)

\* Math.floor(a * d / c) modulo m, in 0..m-1, for c > 0
MulDivMod(a, d, c, m) ==
    LET FloorMod(p) ==
            LET qr == MulDivQR(Abs(p[1]), Abs(p[2]), p[3], m)
            IN  IF (p[1] < 0) = (p[2] < 0) THEN qr[1]
                ELSE (m - ((qr[1] + (IF qr[2] > 0 THEN 1 ELSE 0)) % m)) % m
    IN  FloorMod(<<a, d, c>>)

\* the scale of the values of Math.sin, Math.cos and Math.tan: thousandths
TrigScale == 1000

HalfCircle == Deg(180)

\* Math.sin of an angle of 0..180 degrees given in units (Bhaskara's rational form,
\* 16 x (180 - x) / (5 * 180^2 - 4 x (180 - x))), in thousandths
SinHalf(x) ==
    LET q == x * (HalfCircle - x)
    IN  MulDiv(4 * q, TrigScale, ((5 * HalfCircle * HalfCircle) \div 4) - q)

\* Math.sin(angle * Math.PI / 180), angle in units, in thousandths
Sin(angle) ==
    LET x == ((angle % FullCircle) + FullCircle) % FullCircle
    IN  IF x <= HalfCircle THEN SinHalf(x) ELSE -SinHalf(x - HalfCircle)

\* Math.cos(angle * Math.PI / 180), angle in units, in thousandths
Cos(angle) == Sin(angle + (HalfCircle \div 2))

\* Math.tan(angle * Math.PI / 180), angle in units, in thousandths
Tan(angle) == MulDiv(Sin(angle), TrigScale, Abs(Cos(angle))) * (IF Cos(angle) < 0 THEN -1 ELSE 1)

\* the arc tangent of n / d for 0 <= n <= d, d > 0, in units
\* (45 z + 15.64 z (1 - z) degrees for z = n / d)
AtanUnit(n, d) ==
    LET z == MulDiv(n, TrigScale, d)
    IN  ((45 * z * Scale) \div TrigScale)
        + ((1564 * ((z * (TrigScale - z)) \div 100) * Scale) \div 1000000)

\* Math.atan2(y, x) * 180 / Math.PI, in units, in -180..180 degrees
Atan2(y, x) ==
    LET ay == Abs(y)
        ax == Abs(x)
        \* the angle of (ax, ay) in the first quadrant
        first == IF ax = 0 /\ ay = 0 THEN 0
                 ELSE IF ay <= ax THEN AtanUnit(ay, ax)
                 ELSE Deg(90) - AtanUnit(ax, ay)
        upper == IF x >= 0 THEN first ELSE HalfCircle - first
    IN  IF y >= 0 THEN upper ELSE -upper

----------------------------------------------------------------------------
(* calculator.ts: classification *)

nakshatraSpan == FullCircle \div 27

\* ((longitude % 360) + 360) % 360
normalizeAngle(angle) == JSMod(JSMod(angle, FullCircle) + FullCircle, FullCircle)

\* x % nakshatraSpan.  The remainder is exact for the double 360 / 27, which
\* exceeds 40/3: for x = 40, 80, ..., 320 degrees it is the span less a few ulps
\* (40 % (360 / 27) = 13.333333333333332), given here as the span itself
SpanRemainder(x) ==
    IF x # 0 /\ JSMod(x, Deg(40)) = 0
    THEN (IF x < 0 THEN -nakshatraSpan ELSE nakshatraSpan)
    ELSE JSMod(x, nakshatraSpan)

\* the quarters counted from 0
getNakshatraPadaFromZero(longitude) ==
    LET normalizedLng == normalizeAngle(longitude)
        nakshatraIndex == (normalizedLng \div nakshatraSpan) % 27
        posInNakshatra == SpanRemainder(normalizedLng)
        pada == posInNakshatra \div (nakshatraSpan \div 4)
    IN  [nakshatra |-> NAKSHATRAS[nakshatraIndex + 1],
         pada |-> IF pada < 4 THEN pada ELSE 4]

getNakshatra(longitude) ==
    LET normalizedLng == normalizeAngle(longitude)
        \* Math.floor of the rounded quotient: 40 / (360 / 27) is 3
        nakshatraIndex == (normalizedLng \div nakshatraSpan) % 27
        posInNakshatra == SpanRemainder(normalizedLng)
        pada == (posInNakshatra \div (nakshatraSpan \div 4)) + 1
    IN  [nakshatra |-> NAKSHATRAS[nakshatraIndex + 1],
         pada |-> IF pada < 4 THEN pada ELSE 4]

----------------------------------------------------------------------------
(* calculator.ts: time and precession *)

\* a day count is a whole number of ticks of half an hour
TicksPerDay == 48

\* ticks in a Julian century, the divisor of T = (jd - 2451545.0) / 36525
TicksPerCentury == TicksPerDay * 36525

\* 2451545.0
J2000 == 2451545 * TicksPerDay

\* January and February not moved to the prior year
dateToJDNoShift(year, month, day, hour) ==
    LET A == year \div 100
        B == 2 - A + (A \div 4)
    IN  (((1461 * (year + 4716)) \div 4) + ((306001 * (month + 1)) \div 10000) + day + B)
            * TicksPerDay
        + hour - ((15245 * TicksPerDay) \div 10)

\* dateToJD(year, month, day, hour); hour is given in ticks
dateToJD(year, month, day, hour) ==
    LET y == IF month <= 2 THEN year - 1 ELSE year
        mo == IF month <= 2 THEN month + 12 ELSE month
        A == y \div 100
        B == 2 - A + (A \div 4)
    IN  (((1461 * (y + 4716)) \div 4) + ((306001 * (mo + 1)) \div 10000) + day + B)
            * TicksPerDay
        + hour - ((15245 * TicksPerDay) \div 10)

\* n / 10^5 degrees, in units
DegE5(n) == (n * Scale) \div 100000

\* n / 10^6 degrees, in units
DegE6(n) == (n * Scale) \div 1000000

\* (whole + frac5 / 10^5) * T degrees, in units modulo a full circle;
\* dt = jd - 2451545.0 in ticks
LinT(whole, frac5, dt) ==
    MulDivMod(whole * Scale, dt, TicksPerCentury, FullCircle)
    + (MulDiv(frac5 * Scale, dt, TicksPerCentury) \div 100000)

\* c * T in the unit of c
TimesT(c, dt) == MulDiv(c, dt, TicksPerCentury)

\* (c7 / 10^7) * T * T degrees, in units
QuadT(c7, dt) == TimesT(TimesT(c7 * Scale, dt), dt) \div 10000000

\* the ayanamsa in units of 1/360000 of an angle unit
\* 23 + 51/60 + 26.5/3600 = 171773/7200 degrees; 50.29/3600 degrees a year of
\* 365.25 days from J1900 = 2415020.5
AyanamsaFine(jd) ==
    LET J1900 == (24150205 * TicksPerDay) \div 10
    IN  (171773 * 50 * Scale)
        + MulDiv(5029 * Scale, jd - J1900, (TicksPerDay * 36525) \div 100)

calculateLahiriAyanamsa(jd) == AyanamsaFine(jd) \div 360000

\* the rest of a * d over c: a * d - c * Math.floor(a * d / c), for c > 0
MulDivRest(a, d, c) ==
    LET Rest(p) ==
            LET qr == MulDivQR(Abs(p[1]), Abs(p[2]), p[3], QuotientRange)
            IN  IF (p[1] < 0) = (p[2] < 0) THEN qr[2] ELSE (p[3] - qr[2]) % p[3]
    IN  Rest(<<a, d, c>>)

\* the part of the ayanamsa below one unit of AyanamsaFine left out
AyanamsaRestDropped(jd) == 0

\* the part of the ayanamsa below one unit of AyanamsaFine, as the numerator of a
\* fraction of that unit
AyanamsaRest(jd) ==
    LET J1900 == (24150205 * TicksPerDay) \div 10
    IN  MulDivRest(5029 * Scale, jd - J1900, (TicksPerDay * 36525) \div 100)

\* the angle calculateLahiriAyanamsa returns, not yet put on the grid:
\* baseAyanamsa + precessionRate * yearsSince1900 as <<whole fine units, rest>>
AyanamsaExact(jd) == <<AyanamsaFine(jd), AyanamsaRest(jd)>>

\* the correction of a negative difference left out
toSiderealOneSided(tropicalLongitude, ayanamsa) ==
    LET s0 == tropicalLongitude - ayanamsa
    IN  IF s0 >= FullCircle THEN s0 - FullCircle ELSE s0

toSidereal(tropicalLongitude, ayanamsa) ==
    LET s0 == tropicalLongitude - ayanamsa
        s1 == IF s0 < 0 THEN s0 + FullCircle ELSE s0
    IN  IF s1 >= FullCircle THEN s1 - FullCircle ELSE s1

\* the longitude taken as given, not normalised
getSignRawLongitude(longitude) ==
    LET signIndex == JSMod(longitude \div Deg(30), 12)
    IN  [sign |-> ZODIAC_SIGNS[(signIndex % 12) + 1],
         signIndex |-> signIndex,
         degree |-> JSMod(longitude, Deg(30))]

getSign(longitude) ==
    LET normalizedLng == normalizeAngle(longitude)
        signIndex == (normalizedLng \div Deg(30)) % 12
    IN  [sign |-> ZODIAC_SIGNS[signIndex + 1],
         signIndex |-> signIndex,
         degree |-> normalizedLng % Deg(30)]

----------------------------------------------------------------------------
(* calculator.ts: positions of the bodies *)

calculateSunLongitude(jd) ==
    LET dt == jd - J2000
        L0 == normalizeAngle(DegE5(28046646) + LinT(36000, 76983, dt) + QuadT(3032, dt))
        M == normalizeAngle(DegE5(35752911) + LinT(35999, 5029, dt) - QuadT(1537, dt))
        \* the equation of center, in millionths of a degree
        C == MulDiv(1914602 - TimesT(4817, dt) - TimesT(TimesT(14, dt), dt), Sin(M), TrigScale)
             + MulDiv(19993 - TimesT(101, dt), Sin(2 * M), TrigScale)
             + MulDiv(289, Sin(3 * M), TrigScale)
    IN  normalizeAngle(L0 + DegE6(C))

calculateMoonLongitude(jd) ==
    LET dt == jd - J2000
        Lm == normalizeAngle(DegE5(21831650) + LinT(481267, 88130, dt))
        D == normalizeAngle(DegE5(29785020) + LinT(445267, 11150, dt))
        Ms == normalizeAngle(DegE5(35752910) + LinT(35999, 5030, dt))
        Mm == normalizeAngle(DegE5(13496340) + LinT(477198, 86750, dt))
        F == normalizeAngle(DegE5(9327210) + LinT(483202, 1750, dt))
        \* in millionths of a degree
        correction ==
            6289 * Sin(Mm) + 1274 * Sin(2 * D - Mm) + 658 * Sin(2 * D)
            + 214 * Sin(2 * Mm) - 186 * Sin(Ms) - 114 * Sin(2 * F)
    IN  normalizeAngle(Lm + DegE6(correction))

\* elements[planet]: L0 in 10^-5 degrees, Ldot as whole degrees and 10^-5 degrees
elements ==
    [Mercury |-> [L0 |-> 25225090, LdotWhole |-> 149472, LdotFrac |-> 67460],
     Venus   |-> [L0 |-> 18197980, LdotWhole |-> 58517,  LdotFrac |-> 81570],
     Mars    |-> [L0 |-> 35543300, LdotWhole |-> 19140,  LdotFrac |-> 29930],
     Jupiter |-> [L0 |-> 3435150,  LdotWhole |-> 3034,   LdotFrac |-> 90570],
     Saturn  |-> [L0 |-> 5007740,  LdotWhole |-> 1222,   LdotFrac |-> 11380]]

\* normalizeAngle(meanNodeJ2000 + daysSinceJ2000 * dailyMotion): 125.04 degrees,
\* -0.0529539 degrees a day
MeanNode(jd) ==
    normalizeAngle(DegE5(12504000)
                   + (MulDiv(-529539 * Scale, jd - J2000, TicksPerDay * 100000) \div 100))

\* the 180 degrees left out
OppositeNodeSame(rahuLng) == normalizeAngle(rahuLng)

\* the South Node: normalizeAngle(rahuLng + 180)
OppositeNode(rahuLng) == normalizeAngle(rahuLng + Deg(180))

\* the rule of the inner planets applied to all five planets
calculatePlanetLongitudeInnerRule(planet, jd) ==
    IF planet = "Sun" THEN [longitude |-> calculateSunLongitude(jd), isRetrograde |-> FALSE]
    ELSE IF planet = "Moon" THEN [longitude |-> calculateMoonLongitude(jd), isRetrograde |-> FALSE]
    ELSE IF planet \in {"Mercury", "Venus", "Mars", "Jupiter", "Saturn"} THEN
        LET elem == elements[planet]
            longitude == normalizeAngle(DegE5(elem.L0)
                                        + LinT(elem.LdotWhole, elem.LdotFrac, jd - J2000))
            sunLng == calculateSunLongitude(jd)
            elongation == Abs(longitude - sunLng)
        IN  [longitude |-> longitude,
             isRetrograde |-> elongation < Deg(30) \/ elongation > Deg(330)]
    ELSE IF planet = "Rahu" THEN [longitude |-> MeanNode(jd), isRetrograde |-> TRUE]
    ELSE IF planet = "Ketu" THEN
        [longitude |-> OppositeNode(MeanNode(jd)), isRetrograde |-> TRUE]
    ELSE [longitude |-> 0, isRetrograde |-> FALSE]

calculatePlanetLongitude(planet, jd) ==
    IF planet = "Sun" THEN [longitude |-> calculateSunLongitude(jd), isRetrograde |-> FALSE]
    ELSE IF planet = "Moon" THEN [longitude |-> calculateMoonLongitude(jd), isRetrograde |-> FALSE]
    ELSE IF planet \in {"Mercury", "Venus", "Mars", "Jupiter", "Saturn"} THEN
        LET elem == elements[planet]
            longitude == normalizeAngle(DegE5(elem.L0)
                                        + LinT(elem.LdotWhole, elem.LdotFrac, jd - J2000))
            sunLng == calculateSunLongitude(jd)
            elongation == Abs(longitude - sunLng)
        IN  [longitude |-> longitude,
             isRetrograde |->
                IF planet \in {"Mercury", "Venus"}
                THEN elongation < Deg(30) \/ elongation > Deg(330)
                ELSE elongation > Deg(150) /\ elongation < Deg(210)]
    ELSE IF planet = "Rahu" THEN [longitude |-> MeanNode(jd), isRetrograde |-> TRUE]
    ELSE IF planet = "Ketu" THEN
        [longitude |-> OppositeNode(MeanNode(jd)), isRetrograde |-> TRUE]
    ELSE [longitude |-> 0, isRetrograde |-> FALSE]

\* latitude and geoLongitude in units
calculateAscendant(jd, latitude, geoLongitude) ==
    LET dt == jd - J2000
        \* 280.46061837 + 360.98564736629 * (jd - 2451545.0) + 0.000387933 T^2 - T^3 / 38710000
        GMST == normalizeAngle(
                    DegE5(28046062)
                    + MulDivMod(360 * Scale, dt, TicksPerDay, FullCircle)
                    + MulDivMod(98564 * Scale, dt, TicksPerDay * 100000, FullCircle)
                    + (MulDiv(736629 * Scale, dt, TicksPerDay * 100000) \div 1000000)
                    + QuadT(3879, dt)
                    - (TimesT(TimesT(TimesT(Scale, dt), dt), dt) \div 38710000))
        LST == normalizeAngle(GMST + geoLongitude)
        \* 23.4393 - 0.0000004 * (jd - 2451545.0)
        obliquity == DegE5(2343930) - (MulDiv(4 * Scale, dt, TicksPerDay * 100000) \div 100)
        y == Cos(LST)
        x == -MulDiv(Sin(obliquity), Tan(latitude), TrigScale)
             - MulDiv(Cos(obliquity), Sin(LST), TrigScale)
        ascendant == Atan2(y, x)
    IN  IF ascendant < 0 THEN ascendant + FullCircle ELSE ascendant

\* the correction applied only below zero
getHouseNegativeOnly(planetLng, ascSignIndex) ==
    LET planetSignIndex == (normalizeAngle(planetLng) \div Deg(30)) % 12
        h == planetSignIndex - ascSignIndex + 1
    IN  IF h < 0 THEN h + 12 ELSE h

\* the sign taken from the longitude as given, not normalised
getHouseRawLongitude(planetLng, ascSignIndex) ==
    LET planetSignIndex == JSMod(planetLng \div Deg(30), 12)
        h == planetSignIndex - ascSignIndex + 1
    IN  IF h <= 0 THEN h + 12 ELSE h

\* Whole Sign house of a body
getHouse(planetLng, ascSignIndex) ==
    LET planetSignIndex == (normalizeAngle(planetLng) \div Deg(30)) % 12
        h == planetSignIndex - ascSignIndex + 1
    IN  IF h <= 0 THEN h + 12 ELSE h

----------------------------------------------------------------------------
(* calculator.ts: calculateDashas *)

\* index of the mansion the Moon is in, then of its ruling body in the cycle
DashaLordIndex(moonLng) == IndexOf(NAKSHATRAS, getNakshatra(moonLng).nakshatra) % 9

\* moonLongitude % nakshatraSpan
PositionInNakshatra(moonLng) == SpanRemainder(moonLng)

\* remainingYears = firstDasha.years * (1 - fractionElapsed), as the numerator of a
\* fraction whose denominator is nakshatraSpan
RemainingYearsNum(years, moonLng) == years * (nakshatraSpan - PositionInNakshatra(moonLng))

\* Math.floor(remainingYears)
RemainingWholeYears(years, moonLng) == RemainingYearsNum(years, moonLng) \div nakshatraSpan

\* the months taken from the whole of remainingYears, the "% 1" left out
RemainingWholeMonthsNoMod(years, moonLng) ==
    (RemainingYearsNum(years, moonLng) * 12) \div nakshatraSpan

\* Math.floor((remainingYears % 1) * 12)
RemainingWholeMonths(years, moonLng) ==
    ((RemainingYearsNum(years, moonLng) % nakshatraSpan) * 12) \div nakshatraSpan

\* the end of the first (partial) period
FirstEndDate(table, moonLng, date) ==
    LET firstDasha == table[DashaLordIndex(moonLng) + 1]
        e1 == setFullYear(date, getFullYear(date) + RemainingWholeYears(firstDasha.years, moonLng))
    IN  setMonth(e1, getMonth(e1) + RemainingWholeMonths(firstDasha.years, moonLng))

\* the walk started at the birth-period body itself
LoopIndexFromLord(dashaLordIndex, i) == (dashaLordIndex + i) % 9

\* the index into the cycle used at step i of the inner loop
LoopIndex(dashaLordIndex, i) == (dashaLordIndex + 1 + i) % 9

\* the next period started on the day after the end
NextStartDayAfter(endDate) == endDate + MinutesPerDay

\* the value currentDate takes after a period that ended at endDate
NextStart(endDate) == endDate

RECURSIVE SubsequentDashas(_, _, _, _)
\* the two nested loops, n = cycle * 9 + i counting the periods pushed so far
SubsequentDashas(table, dashaLordIndex, currentDate, n) ==
    IF n >= 2 * 9 THEN <<>>
    ELSE LET dasha == table[LoopIndex(dashaLordIndex, n % 9) + 1]
             endDate == setFullYear(currentDate, getFullYear(currentDate) + dasha.years)
         IN  << [planet |-> dasha.planet, startDate |-> currentDate,
                 endDate |-> endDate, level |-> "maha"] >>
             \o SubsequentDashas(table, dashaLordIndex, NextStart(endDate), n + 1)

calculateDashas(table, moonLng, date) ==
    LET dashaLordIndex == DashaLordIndex(moonLng)
        firstDasha == table[dashaLordIndex + 1]
        endDate == FirstEndDate(table, moonLng, date)
    IN  << [planet |-> firstDasha.planet, startDate |-> date,
            endDate |-> endDate, level |-> "maha"] >>
        \o SubsequentDashas(table, dashaLordIndex, NextStart(endDate), 0)

----------------------------------------------------------------------------
(* calculator.ts: calculateChart *)

\* the sign of a house counted one sign too far
HouseSignIndexOffByOne(ascSignIndex, i) == (ascSignIndex + i + 1) % 12

\* houseSignIndex at step i (0..11) of the loop over the houses
HouseSignIndex(ascSignIndex, i) == (ascSignIndex + i) % 12

\* the houses table (Whole Sign system)
Houses(ascSignIndex) ==
    [h \in 1..12 |->
        LET houseSignIndex == HouseSignIndex(ascSignIndex, h - 1)
        IN  [number |-> h,
             sign |-> ZODIAC_SIGNS[houseSignIndex + 1],
             signIndex |-> houseSignIndex,
             degree |-> 0,
             longitude |-> houseSignIndex * Deg(30)]]

\* one entry of planets
PlanetEntry(planetName, dayCount, ayan, ascSignIndex) ==
    LET Entry(p) ==
            LET Located(siderealLng) ==
                    LET signInfo == getSign(siderealLng)
                        nakshatraInfo == getNakshatra(siderealLng)
                    IN  [name |-> planetName,
                         sign |-> signInfo.sign,
                         signIndex |-> signInfo.signIndex,
                         degree |-> signInfo.degree,
                         longitude |-> siderealLng,
                         nakshatra |-> nakshatraInfo.nakshatra,
                         nakshatraPada |-> nakshatraInfo.pada,
                         house |-> getHouse(siderealLng, ascSignIndex),
                         isRetrograde |-> p.isRetrograde]
            IN  Located(toSidereal(p.longitude, ayan))
    IN  Entry(calculatePlanetLongitude(planetName, dayCount))

\* the slice taken from index 1
SliceFromOne(arr, n) == SubSeq(arr, 2, IF Len(arr) < n THEN Len(arr) ELSE n)

\* Array.prototype.slice(0, n)
Slice(arr, n) == SubSeq(arr, 1, IF Len(arr) < n THEN Len(arr) ELSE n)

\* the planets array, one entry per name of PLANETS
Planets(dayCount, ayan, ascSignIndex) ==
    [i \in 1..Len(PLANETS) |-> PlanetEntry(PLANETS[i], dayCount, ayan, ascSignIndex)]

\* the house taken to be the number of the ascendant's sign
AscendantHouseOfSign(ascSignInfo) == ascSignInfo.signIndex + 1

\* the house of the ascendant entry: the literal 1
AscendantHouse(ascSignInfo) == 1

\* the ascendant entry and the chart record, from the values of the local constants
ChartData(table, req, id, now, date, ayan, siderealAsc, planets) ==
    LET ascSignInfo == getSign(siderealAsc)
        ascNakshatra == getNakshatra(siderealAsc)
        asc == [name |-> "Sun",
                sign |-> ascSignInfo.sign,
                signIndex |-> ascSignInfo.signIndex,
                degree |-> ascSignInfo.degree,
                longitude |-> siderealAsc,
                nakshatra |-> ascNakshatra.nakshatra,
                nakshatraPada |-> ascNakshatra.pada,
                house |-> AscendantHouse(ascSignInfo),
                isRetrograde |-> FALSE]
        moonPlanet == planets[CHOOSE i \in 1..Len(planets) :
                                /\ planets[i].name = "Moon"
                                /\ \A j \in 1..(i - 1) : planets[j].name # "Moon"]
    IN  [id |-> id,
         birthDate |-> date,
         birthTime |-> req.birthTime,
         latitude |-> req.latitude,
         longitude |-> req.longitude,
         timezone |-> req.timezone,
         ascendant |-> asc,
         planets |-> planets,
         houses |-> Houses(ascSignInfo.signIndex),
         dashas |-> Slice(calculateDashas(table, moonPlanet.longitude, date), 20),
         ayanamsa |-> ayan,
         ayanamsaName |-> "Lahiri",
         calculatedAt |-> now]

\* the chart from siderealAsc on
ChartOfAscendant(table, req, id, now, date, dayCount, ayan, siderealAsc) ==
    ChartData(table, req, id, now, date, ayan, siderealAsc,
              Planets(dayCount, ayan, getSign(siderealAsc).signIndex))

\* the chart from the ayanamsa on
ChartOfAyanamsa(table, req, id, now, date, dayCount, ayan) ==
    ChartOfAscendant(table, req, id, now, date, dayCount, ayan,
                     toSidereal(calculateAscendant(dayCount, req.latitude, req.longitude), ayan))

\* the chart from the Julian Day on
ChartOfDayCount(table, req, id, now, date, dayCount) ==
    ChartOfAyanamsa(table, req, id, now, date, dayCount, calculateLahiriAyanamsa(dayCount))

\* the offset of a timezone from UTC, in ticks
UtcOffsetTicks(timezone) == IF timezone = "America/New_York" THEN 10 ELSE 0

\* the birth time taken as a time of request.timezone and brought to UTC
calculateChartZoned(table, req, id, now) ==
    LET year == req.birthDate[1]
        month == req.birthDate[2]
        day == req.birthDate[3]
        hours == req.birthTime[1]
        minutes == req.birthTime[2]
    IN  ChartOfDayCount(table, req, id, now,
                        NewDate(year, month - 1, day, hours, minutes),
                        dateToJD(year, month, day,
                                 ((hours * 60 + minutes) \div (MinutesPerDay \div TicksPerDay))
                                 + UtcOffsetTicks(req.timezone)))

\* calculateChart(request); id is the value of uuidv4(), now that of new Date()
calculateChart(table, req, id, now) ==
    LET year == req.birthDate[1]
        month == req.birthDate[2]
        day == req.birthDate[3]
        hours == req.birthTime[1]
        minutes == req.birthTime[2]
    IN  ChartOfDayCount(table, req, id, now,
                        NewDate(year, month - 1, day, hours, minutes),
                        \* hours + minutes / 60, in ticks
                        dateToJD(year, month, day,
                                 (hours * 60 + minutes) \div (MinutesPerDay \div TicksPerDay)))

----------------------------------------------------------------------------
(* Inputs *)

BirthYears == 1999..(1999 + YearSpan)
\* month ends, the leap day and a mid-month day, as <<month, day>>
SampleDays == {<<1, 31>>, <<2, 28>>, <<2, 29>>, <<6, 15>>, <<8, 31>>, <<12, 31>>}
SampleTimes == {<<6, 30>>}

\* valid Gregorian dates with a time of day, as Date values
BirthDates ==
    { NewDate(c[1], c[2][1] - 1, c[2][2], c[3][1], c[3][2]) :
        c \in { x \in BirthYears \X SampleDays \X SampleTimes :
                   x[2][2] <= DaysInMonth(x[1], x[2][1]) } }

\* a sidereal longitude in [0, 360)
Longitudes == 0..(FullCircle - 1)

----------------------------------------------------------------------------
(* Specification of a call of calculateDashas *)

DashasIdle == moonLongitude = Unset /\ birthDate = Unset /\ dashas = <<>>
HouseIdle == planetLongitude = Unset /\ ascendantSignIndex = Unset /\ house = Unset
PlanetLongitudeIdle == planetArg = "" /\ jdArg = Unset /\ position = Unset
ToSiderealIdle == tropicalArg = Unset /\ ayanamsaArg = Unset /\ sidereal = Unset
ChartIdle == request = Unset /\ chart = Unset
ClassifyIdle == longitudeArg = Unset /\ signResult = Unset /\ nakshatraResult = Unset
AyanamsaIdle == dayCountArg = Unset /\ ayanamsaResult = Unset
ConcurrentIdle == requests = <<>> /\ charts = <<>>
DateIdle == dateArg = Unset /\ dayCountResult = Unset
RouteIdle == body = Unset /\ response = Unset /\ chartStorage = <<>>
ReadingIdle == readingCache = <<>> /\ readings = <<>>
ChatIdle == chatSessions = <<>> /\ added = <<>>
TrialIdle == users = <<>> /\ trials = <<>>
ServicesIdle == RouteIdle /\ ReadingIdle /\ ChatIdle /\ TrialIdle

InitDashas ==
    /\ call = "calculateDashas"
    /\ returned = FALSE
    /\ DASHA_SEQUENCE = DashaTable
    /\ moonLongitude \in Longitudes
    /\ birthDate \in BirthDates
    /\ dashas = <<>>
    /\ HouseIdle /\ PlanetLongitudeIdle /\ ToSiderealIdle /\ ChartIdle
    /\ ClassifyIdle /\ AyanamsaIdle /\ ConcurrentIdle /\ DateIdle /\ ServicesIdle

CalculateDashas ==
    /\ call = "calculateDashas"
    /\ ~returned
    /\ dashas' = calculateDashas(DASHA_SEQUENCE, moonLongitude, birthDate)
    /\ returned' = TRUE
    /\ UNCHANGED <<call, DASHA_SEQUENCE, moonLongitude, birthDate, houseVars,
                   longitudeVars, chartVars, otherVars>>

NextDashas == CalculateDashas

SpecDashas == InitDashas /\ [][NextDashas]_vars

----------------------------------------------------------------------------
(* Specification of a call of getHouse *)

\* any longitude a caller may pass: negative, in [0, 360), and a turn or more above
AnyLongitudes == (-FullCircle)..(2 * FullCircle - 1)

InitHouse ==
    /\ call = "getHouse"
    /\ returned = FALSE
    /\ DASHA_SEQUENCE = DashaTable
    /\ DashasIdle /\ PlanetLongitudeIdle /\ ToSiderealIdle /\ ChartIdle
    /\ ClassifyIdle /\ AyanamsaIdle /\ ConcurrentIdle /\ DateIdle /\ ServicesIdle
    /\ planetLongitude \in AnyLongitudes
    /\ ascendantSignIndex \in 0..11
    /\ house = Unset

GetHouse ==
    /\ call = "getHouse"
    /\ ~returned
    /\ house' = getHouse(planetLongitude, ascendantSignIndex)
    /\ returned' = TRUE
    /\ UNCHANGED <<call, DASHA_SEQUENCE, dashaVars, planetLongitude, ascendantSignIndex,
                   longitudeVars, chartVars, otherVars>>

NextHouse == GetHouse

SpecHouse == InitHouse /\ [][NextHouse]_vars

----------------------------------------------------------------------------
(* Specification of a call of getSign or of getNakshatra *)

InitClassify ==
    /\ call \in {"getSign", "getNakshatra"}
    /\ returned = FALSE
    /\ DASHA_SEQUENCE = DashaTable
    /\ DashasIdle /\ HouseIdle /\ PlanetLongitudeIdle /\ ToSiderealIdle /\ ChartIdle
    /\ AyanamsaIdle /\ ConcurrentIdle /\ DateIdle /\ ServicesIdle
    /\ longitudeArg \in AnyLongitudes
    /\ signResult = Unset
    /\ nakshatraResult = Unset

GetSign ==
    /\ call = "getSign"
    /\ ~returned
    /\ signResult' = getSign(longitudeArg)
    /\ returned' = TRUE
    /\ UNCHANGED <<call, DASHA_SEQUENCE, dashaVars, houseVars, longitudeVars, chartVars,
                   longitudeArg, nakshatraResult, ayanamsaVars, concurrentVars,
                   serviceVars>>

GetNakshatra ==
    /\ call = "getNakshatra"
    /\ ~returned
    /\ nakshatraResult' = getNakshatra(longitudeArg)
    /\ returned' = TRUE
    /\ UNCHANGED <<call, DASHA_SEQUENCE, dashaVars, houseVars, longitudeVars, chartVars,
                   longitudeArg, signResult, ayanamsaVars, concurrentVars,
                   serviceVars>>

NextClassify == GetSign \/ GetNakshatra

SpecClassify == InitClassify /\ [][NextClassify]_vars

----------------------------------------------------------------------------
(* Specification of a call of calculatePlanetLongitude, of toSidereal or of      *)
(* calculateLahiriAyanamsa                                                      *)

\* years of four digits: the first, the last, the epochs of the formulas
EpochYears == {1000, 1900, 2000, 9999}
SampleTicks == {0, 13, 24, 47}

\* day counts of valid Gregorian dates
DayCounts ==
    { dateToJD(c[1], c[2][1], c[2][2], c[3]) :
        c \in { x \in (EpochYears \cup BirthYears) \X SampleDays \X SampleTicks :
                   x[2][2] <= DaysInMonth(x[1], x[2][1]) } }

\* the days of a year that end a month or follow such a day, and the leap day
BoundaryDays ==
    {<<m, d>> : m \in 1..12, d \in {1, 28, 29, 30, 31}} \cup SampleDays

\* valid Gregorian dates <<year, month, day>> of the sampled years
CalendarDates ==
    { <<x[1], x[2][1], x[2][2]>> :
        x \in { c \in (EpochYears \cup BirthYears \cup {1582, 1583, 2100, 2400}) \X BoundaryDays :
                   c[2][2] <= DaysInMonth(c[1], c[2][1]) } }

\* the day counts of DayCounts and those one tick before and after them
NearDayCounts == {d + k : d \in DayCounts, k \in {-1, 0, 1}}

InitLongitude ==
    /\ returned = FALSE
    /\ DASHA_SEQUENCE = DashaTable
    /\ DashasIdle /\ HouseIdle /\ ChartIdle /\ ClassifyIdle /\ ConcurrentIdle
    /\ ServicesIdle
    /\ \/ /\ call = "calculatePlanetLongitude"
          /\ planetArg \in {PLANETS[i] : i \in 1..Len(PLANETS)}
          /\ jdArg \in DayCounts
          /\ position = Unset
          /\ ToSiderealIdle /\ AyanamsaIdle /\ DateIdle
       \/ /\ call = "toSidereal"
          /\ tropicalArg \in Longitudes
          /\ ayanamsaArg \in {calculateLahiriAyanamsa(d) : d \in DayCounts}
          /\ sidereal = Unset
          /\ PlanetLongitudeIdle /\ AyanamsaIdle /\ DateIdle
       \/ /\ call = "calculateLahiriAyanamsa"
          /\ dayCountArg \in NearDayCounts
          /\ ayanamsaResult = Unset
          /\ PlanetLongitudeIdle /\ ToSiderealIdle /\ DateIdle
       \/ /\ call = "dateToJD"
          /\ dateArg \in CalendarDates \X SampleTicks
          /\ dayCountResult = Unset
          /\ PlanetLongitudeIdle /\ ToSiderealIdle /\ AyanamsaIdle

CalculatePlanetLongitude ==
    /\ call = "calculatePlanetLongitude"
    /\ ~returned
    /\ position' = calculatePlanetLongitude(planetArg, jdArg)
    /\ returned' = TRUE
    /\ UNCHANGED <<call, DASHA_SEQUENCE, dashaVars, houseVars, chartVars, planetArg, jdArg,
                   tropicalArg, ayanamsaArg, sidereal, otherVars>>

ToSidereal ==
    /\ call = "toSidereal"
    /\ ~returned
    /\ sidereal' = toSidereal(tropicalArg, ayanamsaArg)
    /\ returned' = TRUE
    /\ UNCHANGED <<call, DASHA_SEQUENCE, dashaVars, houseVars, chartVars, planetArg, jdArg,
                   position, tropicalArg, ayanamsaArg, otherVars>>

CalculateLahiriAyanamsa ==
    /\ call = "calculateLahiriAyanamsa"
    /\ ~returned
    /\ ayanamsaResult' = AyanamsaExact(dayCountArg)
    /\ returned' = TRUE
    /\ UNCHANGED <<call, DASHA_SEQUENCE, dashaVars, houseVars, chartVars, longitudeVars,
                   classifyVars, dayCountArg, concurrentVars, serviceVars>>

\* a call of dateToJD with the fields of dateArg
DateToJD ==
    /\ call = "dateToJD"
    /\ ~returned
    /\ dayCountResult' = dateToJD(dateArg[1][1], dateArg[1][2], dateArg[1][3], dateArg[2])
    /\ returned' = TRUE
    /\ UNCHANGED <<call, DASHA_SEQUENCE, dashaVars, houseVars, chartVars, longitudeVars,
                   classifyVars, ayanamsaVars, concurrentVars, dateArg, routeVars,
                   readingVars, chatVars, trialVars>>

NextLongitude ==
    CalculatePlanetLongitude \/ ToSidereal \/ CalculateLahiriAyanamsa \/ DateToJD

SpecLongitude == InitLongitude /\ [][NextLongitude]_vars

----------------------------------------------------------------------------
(* Specification of a call of calculateChart *)

\* birthTime "HH:MM" as <<hours, minutes>>
BirthTimes == {<<0, 0>>, <<12, 0>>, <<23, 30>>}
Latitudes == {Deg(-34), Deg(41), Deg(65)}
GeoLongitudes == {Deg(-74), 0, Deg(151)}
Timezones == {"America/New_York", "UTC"}

\* birthDate "YYYY-MM-DD" as <<year, month, day>>, a valid Gregorian date
RequestDates ==
    { <<x[1], x[2][1], x[2][2]>> :
        x \in { c \in BirthYears \X SampleDays : c[2][2] <= DaysInMonth(c[1], c[2][1]) } }

Requests ==
    [birthDate : RequestDates, birthTime : BirthTimes, latitude : Latitudes,
     longitude : GeoLongitudes, timezone : Timezones]

\* values of uuidv4()
Uuids == {"uuid-a", "uuid-b"}
\* values of new Date() at the time of the calculation
Clock == {NewDate(2026, 0, 1, 0, 0), NewDate(2026, 0, 1, 0, 1)}

InitChart ==
    /\ call = "calculateChart"
    /\ returned = FALSE
    /\ DASHA_SEQUENCE = DashaTable
    /\ DashasIdle /\ HouseIdle /\ PlanetLongitudeIdle /\ ToSiderealIdle
    /\ ClassifyIdle /\ AyanamsaIdle /\ ConcurrentIdle /\ DateIdle /\ ServicesIdle
    /\ request \in Requests
    /\ chart = Unset

CalculateChart ==
    /\ call = "calculateChart"
    /\ ~returned
    /\ \E id \in Uuids, now \in Clock :
          chart' = calculateChart(DASHA_SEQUENCE, request, id, now)
    /\ returned' = TRUE
    /\ UNCHANGED <<call, DASHA_SEQUENCE, dashaVars, houseVars, longitudeVars, request,
                   otherVars>>

NextChart == CalculateChart

SpecChart == InitChart /\ [][NextChart]_vars

----------------------------------------------------------------------------
(* Specification of concurrent invocations of calculateChart.  The function is *)
(* synchronous: an invocation runs from its call to its return as one step of   *)
(* the event loop, and the invocations take their steps in any order.           *)

\* the invocations in flight
Invocations == {1, 2}

\* n / 10^4 degrees, in units
DegE4(n) == (n * Scale) \div 10000

\* the request of testCalculation, and requests that differ from it in one field or more
ConcurrentRequests ==
    [birthDate : {<<2000, 1, 1>>, <<1999, 8, 31>>},
     birthTime : {<<12, 0>>, <<23, 30>>},
     latitude : {DegE4(407128)},
     longitude : {DegE4(-740060)},
     timezone : Timezones]

InitConcurrent ==
    /\ call = "calculateChart, concurrently"
    /\ returned = FALSE
    /\ DASHA_SEQUENCE = DashaTable
    /\ DashasIdle /\ HouseIdle /\ PlanetLongitudeIdle /\ ToSiderealIdle /\ ChartIdle
    /\ ClassifyIdle /\ AyanamsaIdle /\ DateIdle /\ ServicesIdle
    /\ requests \in [Invocations -> ConcurrentRequests]
    /\ charts = <<>>

\* the table after it was rotated by one place
RotatedTable(table) == [j \in 1..Len(table) |-> table[(j % Len(table)) + 1]]

\* an invocation that walks the cycle by rotating the module's table in place
CalculateChartOfRotating(i) ==
    /\ call = "calculateChart, concurrently"
    /\ i \notin DOMAIN charts
    /\ \E id \in Uuids, now \in Clock :
          charts' = [j \in DOMAIN charts \cup {i} |->
                        IF j = i THEN calculateChart(DASHA_SEQUENCE, requests[i], id, now)
                        ELSE charts[j]]
    /\ DASHA_SEQUENCE' = RotatedTable(DASHA_SEQUENCE)
    /\ returned' = (DOMAIN charts' = Invocations)
    /\ UNCHANGED <<call, dashaVars, houseVars, longitudeVars, chartVars,
                   classifyVars, ayanamsaVars, requests, serviceVars>>

\* invocation i of calculateChart, from its call to its return
CalculateChartOf(i) ==
    /\ call = "calculateChart, concurrently"
    /\ i \notin DOMAIN charts
    /\ \E id \in Uuids, now \in Clock :
          charts' = [j \in DOMAIN charts \cup {i} |->
                        IF j = i THEN calculateChart(DASHA_SEQUENCE, requests[i], id, now)
                        ELSE charts[j]]
    /\ returned' = (DOMAIN charts' = Invocations)
    /\ UNCHANGED <<call, DASHA_SEQUENCE, dashaVars, houseVars, longitudeVars, chartVars,
                   classifyVars, ayanamsaVars, requests, serviceVars>>

NextConcurrent == \E i \in Invocations : CalculateChartOf(i)

SpecConcurrent == InitConcurrent /\ [][NextConcurrent]_vars

----------------------------------------------------------------------------
(* routes/chart.ts: POST /generate.  A string that the handler tests or parses *)
(* is the sequence of its characters; <<>> is the empty string.  The body is a *)
(* function on the fields it has: a field it lacks is undefined.  The timezone *)
(* is never parsed and is kept whole.  The handler is synchronous.  Its catch  *)
(* branch (status 500) is not reachable: with two groups of digits for numbers *)
(* calculateChart is closed arithmetic.                                        *)

Digits == <<"0", "1", "2", "3", "4", "5", "6", "7", "8", "9">>

\* \d
IsDigit(c) == \E i \in 1..Len(Digits) : Digits[i] = c

\* /^\d{4}-\d{2}-\d{2}$/.test(s)
DateFormat(s) ==
    /\ Len(s) = 10
    /\ \A i \in {1, 2, 3, 4, 6, 7, 9, 10} : IsDigit(s[i])
    /\ s[5] = "-"
    /\ s[8] = "-"

\* /^\d{2}:\d{2}$/.test(s)
TimeFormat(s) ==
    /\ Len(s) = 5
    /\ \A i \in {1, 2, 4, 5} : IsDigit(s[i])
    /\ s[3] = ":"

RECURSIVE ToNumber(_)
\* Number(s) of a string of decimal digits
ToNumber(s) ==
    IF s = <<>> THEN 0
    ELSE 10 * ToNumber(SubSeq(s, 1, Len(s) - 1))
            + ((CHOOSE i \in 1..Len(Digits) : Digits[i] = s[Len(s)]) - 1)

RECURSIVE Split(_, _)
\* String.prototype.split(separator)
Split(s, separator) ==
    IF \E i \in 1..Len(s) : s[i] = separator
    THEN LET at == CHOOSE i \in 1..Len(s) :
                      s[i] = separator /\ \A j \in 1..(i - 1) : s[j] # separator
         IN  <<SubSeq(s, 1, at - 1)>> \o Split(SubSeq(s, at + 1, Len(s)), separator)
    ELSE <<s>>

\* birthDate.split('-').map(Number) and birthTime.split(':').map(Number)
SplitNumbers(s, separator) ==
    [i \in 1..Len(Split(s, separator)) |-> ToNumber(Split(s, separator)[i])]

\* timezone || 'UTC'
TimezoneOrUTC(b) ==
    IF "timezone" \in DOMAIN b /\ b.timezone # "" THEN b.timezone ELSE "UTC"

\* the ChartRequest the handler builds, with birthDate and birthTime as
\* calculateChart destructures them
ChartRequestOf(b) ==
    [birthDate |-> SplitNumbers(b.birthDate, "-"),
     birthTime |-> SplitNumbers(b.birthTime, ":"),
     latitude |-> b.latitude,
     longitude |-> b.longitude,
     timezone |-> TimezoneOrUTC(b)]

\* !birthDate || !birthTime || latitude === undefined || longitude === undefined
MissingRequiredFields(b) ==
    \/ "birthDate" \notin DOMAIN b
    \/ b.birthDate = <<>>
    \/ "birthTime" \notin DOMAIN b
    \/ b.birthTime = <<>>
    \/ "latitude" \notin DOMAIN b
    \/ "longitude" \notin DOMAIN b

\* Map.prototype.set
MapSet(map, key, value) ==
    [k \in DOMAIN map \cup {key} |-> IF k = key THEN value ELSE map[k]]

----------------------------------------------------------------------------
(* Specification of a POST /generate request *)

DateStrings ==
    { <<"2", "0", "0", "0", "-", "0", "2", "-", "2", "9">>,
      <<"2", "0", "0", "0", "-", "1", "3", "-", "4", "5">>,
      <<"1", "9", "9", "9", "-", "0", "2", "-", "2", "9">>,
      <<"1", "9", "9", "9", "-", "0", "0", "-", "0", "0">>,
      <<"1", "9", "9", "9", "-", "6", "-", "1", "5">>,
      <<"1", "5", "/", "0", "6", "/", "1", "9", "9", "9">>,
      <<"2", "0", "0", "0", "-", "0", "2", "-", "2", "9", "T">>,
      <<>> }

TimeStrings ==
    { <<"0", "6", ":", "3", "0">>,
      <<"2", "3", ":", "5", "9">>,
      <<"9", "9", ":", "9", "9">>,
      <<"2", "4", ":", "0", "0">>,
      <<"6", ":", "3", "0">>,
      <<"0", "6", "3", "0", "0">>,
      <<>> }

BodyFields == {"birthDate", "birthTime", "latitude", "longitude", "timezone"}

\* request bodies: all the fields, or all but one
Bodies ==
    { [f \in F |-> b[f]] :
        b \in [birthDate : DateStrings, birthTime : TimeStrings, latitude : {0, Deg(41)},
               longitude : {Deg(-74)}, timezone : {"America/New_York", ""}],
        F \in {BodyFields} \cup {BodyFields \ {f} : f \in BodyFields} }

\* the chart of an earlier request
StoredChart ==
    calculateChart(DashaTable,
                   [birthDate |-> <<1999, 6, 15>>, birthTime |-> <<12, 0>>,
                    latitude |-> Deg(41), longitude |-> Deg(-74), timezone |-> "UTC"],
                   "uuid-a", NewDate(2025, 11, 31, 0, 0))

InitGenerate ==
    /\ call = "POST /generate"
    /\ returned = FALSE
    /\ DASHA_SEQUENCE = DashaTable
    /\ DashasIdle /\ HouseIdle /\ PlanetLongitudeIdle /\ ToSiderealIdle /\ ChartIdle
    /\ ClassifyIdle /\ AyanamsaIdle /\ ConcurrentIdle /\ DateIdle
    /\ ReadingIdle /\ ChatIdle /\ TrialIdle
    /\ body \in Bodies
    /\ response = Unset
    /\ chartStorage \in {<<>>, [id \in {"uuid-a"} |-> StoredChart]}

\* router.post('/generate', ...): the whole handler
PostGenerate ==
    /\ call = "POST /generate"
    /\ ~returned
    /\ IF MissingRequiredFields(body)
       THEN /\ response' = [status |-> 400, error |-> "Missing required fields"]
            /\ UNCHANGED <<request, chart, chartStorage>>
       ELSE IF ~DateFormat(body.birthDate)
       THEN /\ response' = [status |-> 400,
                            error |-> "Invalid birthDate format. Expected YYYY-MM-DD"]
            /\ UNCHANGED <<request, chart, chartStorage>>
       ELSE IF ~TimeFormat(body.birthTime)
       THEN /\ response' = [status |-> 400,
                            error |-> "Invalid birthTime format. Expected HH:MM"]
            /\ UNCHANGED <<request, chart, chartStorage>>
       ELSE \E id \in Uuids, now \in Clock :
               /\ request' = ChartRequestOf(body)
               /\ chart' = calculateChart(DASHA_SEQUENCE, ChartRequestOf(body), id, now)
               /\ chartStorage' = MapSet(chartStorage, chart'.id, chart')
               /\ response' = [status |-> 200, success |-> TRUE, chart |-> chart']
    /\ returned' = TRUE
    /\ UNCHANGED <<call, DASHA_SEQUENCE, dashaVars, houseVars, longitudeVars, classifyVars,
                   ayanamsaVars, concurrentVars, dateVars, body, readingVars, chatVars,
                   trialVars>>

NextGenerate == PostGenerate

SpecGenerate == InitGenerate /\ [][NextGenerate]_vars

----------------------------------------------------------------------------
(* The reading service: generateReading, getCachedReading, cacheReading and    *)
(* clearChartCache over the module-level Map readingCache.  generateReading is *)
(* async: it runs from its call to its await of the provider manager as one    *)
(* step, and from the settling of that promise to its end as another; calls of *)
(* several callers interleave at the await.  clearChartCache is synchronous.   *)

READING_CATEGORIES == <<"summary", "love", "career", "finances", "health", "timeline">>

\* `${chartId}:${category}`
getCacheKey(chartId, category) == chartId \o ":" \o category

\* the lookup made for the summary whatever the category
getCachedReadingOfSummary(cache, chartId, category) ==
    IF getCacheKey(chartId, "summary") \in DOMAIN cache
    THEN {cache[getCacheKey(chartId, "summary")]}
    ELSE {}

\* getCachedReading: the set holding the cached reading, empty for null
getCachedReading(cache, chartId, category) ==
    IF getCacheKey(chartId, category) \in DOMAIN cache
    THEN {cache[getCacheKey(chartId, category)]}
    ELSE {}

\* cacheReading: the cache after readingCache.set
cacheReading(cache, chartId, category, content, provider, now) ==
    MapSet(cache, getCacheKey(chartId, category),
           [content |-> content, createdAt |-> now, category |-> category,
            provider |-> provider])

\* clearChartCache: the cache after the deletes
clearChartCache(cache, chartId) ==
    [k \in DOMAIN cache \ {getCacheKey(chartId, READING_CATEGORIES[i]) :
                              i \in 1..Len(READING_CATEGORIES)} |-> cache[k]]

----------------------------------------------------------------------------
(* Specification of calls of the reading service *)

Callers == {1, 2}
CalledCategories == {"summary", "love"}
\* what the provider manager resolves with
Contents == {"reading-1", "reading-2"}
ProviderNames == {"claude"}
\* the value of new Date() when a reading is cached
CacheClock == {NewDate(2026, 0, 1, 0, 0)}

\* a caller that has made no call
NoCall ==
    [op |-> "", chartId |-> "", category |-> "", useCache |-> FALSE, pc |-> "idle",
     result |-> [content |-> "", cached |-> FALSE, provider |-> ""]]

InitReading ==
    /\ call = "generateReading"
    /\ returned = FALSE
    /\ DASHA_SEQUENCE = DashaTable
    /\ DashasIdle /\ HouseIdle /\ PlanetLongitudeIdle /\ ToSiderealIdle /\ ChartIdle
    /\ ClassifyIdle /\ AyanamsaIdle /\ ConcurrentIdle /\ DateIdle
    /\ RouteIdle /\ ChatIdle /\ TrialIdle
    /\ readingCache = <<>>
    /\ readings = [c \in Callers |-> NoCall]

ReadingFrame ==
    <<call, returned, DASHA_SEQUENCE, dashaVars, houseVars, longitudeVars, chartVars,
      classifyVars, ayanamsaVars, concurrentVars, dateVars, routeVars, chatVars, trialVars>>

\* generateReading(chart, category, useCache) up to its return from the cache or
\* to its await of the provider manager
GenerateReadingCall(c) ==
    /\ readings[c].pc # "awaiting"
    /\ \E chartId \in Uuids, category \in CalledCategories, useCache \in BOOLEAN :
          LET cached == IF useCache
                        THEN getCachedReading(readingCache, chartId, category)
                        ELSE {}
              frame == [op |-> "generateReading", chartId |-> chartId,
                        category |-> category, useCache |-> useCache,
                        pc |-> "awaiting",
                        result |-> NoCall.result]
          IN  readings' =
                [readings EXCEPT ![c] =
                    IF cached # {}
                    THEN [frame EXCEPT
                            !.pc = "returned",
                            !.result = [content |-> (CHOOSE r \in cached : TRUE).content,
                                        cached |-> TRUE,
                                        provider |-> (CHOOSE r \in cached : TRUE).provider]]
                    ELSE frame]
    /\ UNCHANGED <<readingCache, ReadingFrame>>

\* the provider manager resolves: the reading is cached and returned
ProviderResolves(c) ==
    /\ readings[c].pc = "awaiting"
    /\ \E content \in Contents, provider \in ProviderNames, now \in CacheClock :
          /\ readingCache' = cacheReading(readingCache, readings[c].chartId,
                                          readings[c].category, content, provider, now)
          /\ readings' = [readings EXCEPT
                            ![c].pc = "returned",
                            ![c].result = [content |-> content, cached |-> FALSE,
                                           provider |-> provider]]
    /\ UNCHANGED ReadingFrame

\* the provider manager rejects: generateReading throws
ProviderRejects(c) ==
    /\ readings[c].pc = "awaiting"
    /\ readings' = [readings EXCEPT
                      ![c].pc = "thrown",
                      ![c].result =
                          [error |-> "Failed to generate astrological reading. Please try again later."]]
    /\ UNCHANGED <<readingCache, ReadingFrame>>

\* clearChartCache(chartId)
ClearChartCache(c) ==
    /\ readings[c].pc # "awaiting"
    /\ \E chartId \in Uuids :
          /\ readingCache' = clearChartCache(readingCache, chartId)
          /\ readings' = [readings EXCEPT
                            ![c] = [NoCall EXCEPT !.op = "clearChartCache",
                                                  !.chartId = chartId,
                                                  !.pc = "returned"]]
    /\ UNCHANGED ReadingFrame

NextReading ==
    \E c \in Callers :
        \/ GenerateReadingCall(c)
        \/ ProviderResolves(c)
        \/ ProviderRejects(c)
        \/ ClearChartCache(c)

SpecReading == InitReading /\ [][NextReading]_vars

----------------------------------------------------------------------------
(* The chat service: addToChatHistory and clearChatHistory over the module-    *)
(* level Map chatSessions.  Both are synchronous.  A userId that is undefined  *)
(* or empty is "".                                                             *)

\* the number of messages kept
HistoryLimit == 50

\* userId ? `${chartId}:${userId}` : chartId
getSessionKey(chartId, userId) ==
    IF userId # "" THEN chartId \o ":" \o userId ELSE chartId

\* the elements left when n are removed from the end
SpliceFromEnd(arr, n) == SubSeq(arr, 1, Len(arr) - n)

\* the array after arr.splice(0, n)
SpliceFromStart(arr, n) == SubSeq(arr, n + 1, Len(arr))

\* chatSessions.get(key) || []
StoredHistory(sessions, key) == IF key \in DOMAIN sessions THEN sessions[key] ELSE <<>>

\* the history after history.push(message) and the trim
PushAndTrim(history, message) ==
    IF Len(history) + 1 > HistoryLimit
    THEN SpliceFromStart(Append(history, message), Len(history) + 1 - HistoryLimit)
    ELSE Append(history, message)

\* addToChatHistory: chatSessions after the call
addToChatHistory(sessions, chartId, message, userId) ==
    MapSet(sessions, getSessionKey(chartId, userId),
           PushAndTrim(StoredHistory(sessions, getSessionKey(chartId, userId)), message))

\* clearChatHistory: chatSessions after the call
clearChatHistory(sessions, chartId, userId) ==
    [k \in DOMAIN sessions \ {getSessionKey(chartId, userId)} |-> sessions[k]]

----------------------------------------------------------------------------
(* Specification of calls of the chat service.  The content of a message is    *)
(* its number among the messages added to its session since the session was    *)
(* last cleared.                                                               *)

\* sessions, as <<chartId, userId>>
Sessions == {<<"uuid-a", "">>, <<"uuid-a", "user-1">>, <<"uuid-b", "user-1">>}

InitChat ==
    /\ call = "addToChatHistory"
    /\ returned = FALSE
    /\ DASHA_SEQUENCE = DashaTable
    /\ DashasIdle /\ HouseIdle /\ PlanetLongitudeIdle /\ ToSiderealIdle /\ ChartIdle
    /\ ClassifyIdle /\ AyanamsaIdle /\ ConcurrentIdle /\ DateIdle
    /\ RouteIdle /\ ReadingIdle /\ TrialIdle
    /\ chatSessions = <<>>
    /\ added = [s \in Sessions |-> 0]

ChatFrame ==
    <<call, returned, DASHA_SEQUENCE, dashaVars, houseVars, longitudeVars, chartVars,
      classifyVars, ayanamsaVars, concurrentVars, dateVars, routeVars, readingVars,
      trialVars>>

\* addToChatHistory(chartId, message, userId)
AddToChatHistory ==
    \E s \in Sessions :
        /\ added[s] < MaxAdded
        /\ added' = [added EXCEPT ![s] = added[s] + 1]
        /\ chatSessions' = addToChatHistory(chatSessions, s[1],
                                            [role |-> "user", content |-> added[s] + 1],
                                            s[2])
        /\ UNCHANGED ChatFrame

\* clearChatHistory(chartId, userId)
ClearChatHistory ==
    \E s \in Sessions :
        /\ added' = [added EXCEPT ![s] = 0]
        /\ chatSessions' = clearChatHistory(chatSessions, s[1], s[2])
        /\ UNCHANGED ChatFrame

NextChat == AddToChatHistory \/ ClearChatHistory

SpecChat == InitChat /\ [][NextChat]_vars

----------------------------------------------------------------------------
(* The subscription service: startTrial.  The function is async: it runs from  *)
(* its call to the await of prisma.user.findUnique as one step, from the       *)
(* settling of that promise to its return or to the await of                   *)
(* prisma.user.update as another, and from the settling of the update to its   *)
(* return as the last; calls of several callers interleave at the awaits.  A   *)
(* date column that is null is the empty set, one that holds t is {t}.         *)

DEFAULT_TRIAL_DAYS == 7

\* the time value of now.getTime() + days * 24 * 60 * 60 * 1000
TrialEnd(now, days) == now + days * MinutesPerDay

\* the data of prisma.user.update
TrialData(user, now, days) ==
    [user EXCEPT !.subscriptionStatus = "trial",
                 !.trialStartedAt = {now},
                 !.trialEndsAt = {TrialEnd(now, days)},
                 !.trialUsed = TRUE]

\* the result startTrial returns without starting a trial, as a set: empty if it
\* goes on to the update
TrialRefused(table, userId) ==
    IF userId \notin DOMAIN table
    THEN {[success |-> FALSE, error |-> "User not found"]}
    ELSE IF table[userId].trialUsed
    THEN {[success |-> FALSE, error |-> "Trial already used"]}
    ELSE IF table[userId].subscriptionStatus \in {"premium", "admin"}
    THEN {[success |-> FALSE, error |-> "User already has premium access"]}
    ELSE {}

----------------------------------------------------------------------------
(* Specification of concurrent calls of startTrial *)

TrialCallers == {1, 2}
UserIds == {"user-1", "user-2", "nobody"}
TrialDays == {DEFAULT_TRIAL_DAYS, 14}

\* rows of the user table
UserRows ==
    { [subscriptionStatus |-> "free", trialUsed |-> FALSE,
       trialStartedAt |-> {}, trialEndsAt |-> {}],
      [subscriptionStatus |-> "premium", trialUsed |-> FALSE,
       trialStartedAt |-> {}, trialEndsAt |-> {}],
      [subscriptionStatus |-> "free", trialUsed |-> TRUE,
       trialStartedAt |-> {NewDate(2025, 0, 1, 0, 0)},
       trialEndsAt |-> {TrialEnd(NewDate(2025, 0, 1, 0, 0), DEFAULT_TRIAL_DAYS)}] }

\* a caller that has made no call
NoTrial ==
    [pc |-> "idle", userId |-> "", days |-> 0, now |-> 0,
     result |-> [success |-> FALSE, error |-> ""]]

InitTrial ==
    /\ call = "startTrial"
    /\ returned = FALSE
    /\ DASHA_SEQUENCE = DashaTable
    /\ DashasIdle /\ HouseIdle /\ PlanetLongitudeIdle /\ ToSiderealIdle /\ ChartIdle
    /\ ClassifyIdle /\ AyanamsaIdle /\ ConcurrentIdle /\ DateIdle
    /\ RouteIdle /\ ReadingIdle /\ ChatIdle
    /\ users \in [{"user-1", "user-2"} -> UserRows]
    /\ trials = [c \in TrialCallers |-> NoTrial]

TrialFrame ==
    <<call, returned, DASHA_SEQUENCE, dashaVars, houseVars, longitudeVars, chartVars,
      classifyVars, ayanamsaVars, concurrentVars, dateVars, routeVars, readingVars,
      chatVars>>

\* startTrial(userId, days) up to the await of findUnique
StartTrialCall(c) ==
    /\ trials[c].pc = "idle"
    /\ \E userId \in UserIds, days \in TrialDays :
          trials' = [trials EXCEPT ![c] = [NoTrial EXCEPT !.pc = "finding",
                                                          !.userId = userId,
                                                          !.days = days]]
    /\ UNCHANGED <<users, TrialFrame>>

\* findUnique resolves with the row as it is now: the checks, and either a return
\* or the call of update
FindResolves(c) ==
    /\ trials[c].pc = "finding"
    /\ IF TrialRefused(users, trials[c].userId) # {}
       THEN trials' = [trials EXCEPT
                          ![c].pc = "done",
                          ![c].result = CHOOSE r \in TrialRefused(users, trials[c].userId) : TRUE]
       ELSE \E now \in Clock :
               trials' = [trials EXCEPT ![c].pc = "updating", ![c].now = now]
    /\ UNCHANGED <<users, TrialFrame>>

\* update resolves: the row is written and startTrial returns success
UpdateResolves(c) ==
    /\ trials[c].pc = "updating"
    /\ users' = [users EXCEPT ![trials[c].userId] =
                    TrialData(users[trials[c].userId], trials[c].now, trials[c].days)]
    /\ trials' = [trials EXCEPT
                     ![c].pc = "done",
                     ![c].result = [success |-> TRUE,
                                    endsAt |-> {TrialEnd(trials[c].now, trials[c].days)}]]
    /\ UNCHANGED TrialFrame

\* findUnique or update rejects: the catch block
PrismaRejects(c) ==
    /\ trials[c].pc \in {"finding", "updating"}
    /\ trials' = [trials EXCEPT
                     ![c].pc = "done",
                     ![c].result = [success |-> FALSE, error |-> "Failed to start trial"]]
    /\ UNCHANGED <<users, TrialFrame>>

NextTrial ==
    \E c \in TrialCallers :
        \/ StartTrialCall(c)
        \/ FindResolves(c)
        \/ UpdateResolves(c)
        \/ PrismaRejects(c)

SpecTrial == InitTrial /\ [][NextTrial]_vars

----------------------------------------------------------------------------
(* Properties of calculateDashas *)

Returned == call = "calculateDashas" /\ returned

\* the mansion the Moon is in, 0..26, straight from the longitude
MansionIndex == moonLongitude \div nakshatraSpan

\* the entry of the cycle that rules the birth period
BirthDasha == DASHA_SEQUENCE[(MansionIndex % 9) + 1]

\* date plus y calendar years and m calendar months, as the calendar carries them
PlusYearsMonths(date, y, m) ==
    NewDate(getFullYear(date) + y, getMonth(date) + m, getDate(date),
            TimeWithinDay(date) \div 60, TimeWithinDay(date) % 60)

\* C1: in the returned list every period ends exactly where the next one starts
C1_Gapless ==
    Returned =>
        \A i \in 1..(Len(dashas) - 1) : dashas[i].endDate = dashas[i + 1].startDate

C1_Witness ==
    /\ Returned
    /\ Len(dashas) > 2
    /\ PositionInNakshatra(moonLongitude) > 0
    /\ dashas[1].endDate = dashas[2].startDate

\* length of the first period in days
FirstPeriodDays == Day(dashas[1].endDate) - Day(dashas[1].startDate)

\* C2: the first period starts at birth and lasts years * (1 - fractionElapsed),
\* the fraction of a month included: its length in days is within 5 days of
\* remainingYears * 365.25
C2_FirstPeriodCarriesFraction ==
    Returned =>
        /\ dashas[1].startDate = birthDate
        /\ LET lhs == FirstPeriodDays * nakshatraSpan * 100
               rhs == RemainingYearsNum(BirthDasha.years, moonLongitude) * 36525
           IN  /\ lhs - rhs <= 5 * nakshatraSpan * 100
               /\ rhs - lhs <= 5 * nakshatraSpan * 100

\* C3: a Moon at the very start of a mansion (a longitude that is a whole number
\* of spans of 360/27 degrees) gives a first period of the full year-length of its
\* body: birth plus that many calendar years and no months; at longitude 0 the
\* body is Ketu and the length 7 years
C3_FullPeriodAtMansionStart ==
    (Returned /\ moonLongitude % nakshatraSpan = 0) =>
        /\ dashas[1].planet = BirthDasha.planet
        /\ dashas[1].startDate = birthDate
        /\ dashas[1].endDate = PlusYearsMonths(birthDate, BirthDasha.years, 0)
        /\ moonLongitude = 0 =>
              /\ dashas[1].planet = "Ketu"
              /\ dashas[1].endDate = PlusYearsMonths(birthDate, 7, 0)

\* C4: a Moon at the midpoint of its mansion gives a first period of half the
\* year-length N of its body: N/2 years, and for an odd N (N-1)/2 years and 6 months
C4_HalfPeriodAtMidpoint ==
    (Returned /\ 2 * PositionInNakshatra(moonLongitude) = nakshatraSpan) =>
        /\ dashas[1].startDate = birthDate
        /\ dashas[1].endDate =
              PlusYearsMonths(PlusYearsMonths(birthDate, BirthDasha.years \div 2, 0),
                              0, IF BirthDasha.years % 2 = 1 THEN 6 ELSE 0)

C4_Witness ==
    /\ Returned
    /\ 2 * PositionInNakshatra(moonLongitude) = nakshatraSpan
    /\ BirthDasha.years = 19
    /\ getFullYear(dashas[1].endDate) >= getFullYear(birthDate) + 9

\* C5: with the Moon in mansion m, period i (from 0) of the returned list is ruled
\* by entry (m + i) mod 9 of the cycle, so adjacent periods have consecutive bodies
C5_CycleWalkedInOrder ==
    Returned =>
        /\ \A i \in 1..Len(dashas) :
              dashas[i].planet = DASHA_SEQUENCE[((MansionIndex + i - 1) % 9) + 1].planet
        /\ \A i \in 1..(Len(dashas) - 1) : dashas[i].planet # dashas[i + 1].planet

C5_Witness ==
    /\ Returned
    /\ MansionIndex = 8
    /\ dashas[1].planet = "Mercury"
    /\ dashas[2].planet = "Ketu"
    /\ dashas[11].planet = "Ketu"

RECURSIVE SumYears(_, _)
\* the year-lengths of the first n entries of a table, added up
SumYears(table, n) == IF n = 0 THEN 0 ELSE SumYears(table, n - 1) + table[n].years

\* C6: the cycle has nine entries, one for each body of PLANETS and none twice,
\* their year-lengths add up to 120 = TOTAL_DASHA_YEARS, and the table is the
\* same before and after a call of calculateDashas
C6_CycleTable ==
    /\ Len(DASHA_SEQUENCE) = 9
    /\ \A p \in 1..Len(PLANETS) :
          Cardinality({i \in 1..Len(DASHA_SEQUENCE) : DASHA_SEQUENCE[i].planet = PLANETS[p]}) = 1
    /\ SumYears(DASHA_SEQUENCE, Len(DASHA_SEQUENCE)) = 120
    /\ TOTAL_DASHA_YEARS = 120
    /\ DASHA_SEQUENCE = DashaTable

C6_Witness ==
    /\ Returned
    /\ DASHA_SEQUENCE = DashaTable
    /\ SumYears(DASHA_SEQUENCE, 9) = TOTAL_DASHA_YEARS

----------------------------------------------------------------------------
(* Properties of getHouse *)

\* the sign index 0..11 of a longitude, by floor and a non-negative modulo
SignIndexOf(lng) == (lng \div Deg(30)) % 12

\* the longitude with the same place within its sign as planetLongitude, in sign s
InSign(s) == Deg(30) * s + (planetLongitude % Deg(30))

\* C7: for the fixed ascendant sign index of the call, the 12 sign indices of a
\* body map one-to-one onto the houses 1..12: every house is given by exactly one sign
C7_HouseBijection ==
    call = "getHouse" =>
        /\ \A h \in 1..12 :
              Cardinality({s \in 0..11 : getHouse(InSign(s), ascendantSignIndex) = h}) = 1
        /\ returned => house = getHouse(InSign(SignIndexOf(planetLongitude)), ascendantSignIndex)

C7_Witness ==
    /\ call = "getHouse" /\ returned
    /\ house = 12
    /\ ascendantSignIndex = 11
    /\ SignIndexOf(planetLongitude) = 10
    /\ {getHouse(InSign(s), ascendantSignIndex) : s \in 0..11} = 1..12

\* C8: the returned house is ((s - a) mod 12) + 1 with a non-negative modulo, s the
\* body's sign index floor(longitude/30) mod 12; it lies in 1..12, and a body in the
\* ascendant's sign is in house 1
C8_WholeSignRule ==
    (call = "getHouse" /\ returned) =>
        /\ house = ((SignIndexOf(planetLongitude) - ascendantSignIndex) % 12) + 1
        /\ house \in 1..12
        /\ SignIndexOf(planetLongitude) = ascendantSignIndex => house = 1

C8_Witness ==
    /\ call = "getHouse" /\ returned
    /\ house = 1
    /\ planetLongitude < 0
    /\ SignIndexOf(planetLongitude) = ascendantSignIndex
    /\ ascendantSignIndex = 11

----------------------------------------------------------------------------
(* Properties of calculateChart *)

ChartReturned == call = "calculateChart" /\ returned

\* C9: the houses table of a returned chart has 12 entries numbered 1..12 in order,
\* house h has sign index (ascendant.signIndex + h - 1) mod 12, house 1 has the
\* ascendant's sign, and the 12 houses carry the 12 signs once each
C9_HousesTable ==
    ChartReturned =>
        /\ DOMAIN chart.houses = 1..12
        /\ \A h \in 1..12 :
              /\ chart.houses[h].number = h
              /\ chart.houses[h].signIndex = (chart.ascendant.signIndex + h - 1) % 12
              /\ chart.houses[h].sign = ZODIAC_SIGNS[chart.houses[h].signIndex + 1]
        /\ chart.houses[1].sign = chart.ascendant.sign
        /\ \A s \in 0..11 : Cardinality({h \in 1..12 : chart.houses[h].signIndex = s}) = 1

C9_Witness ==
    /\ ChartReturned
    /\ chart.ascendant.signIndex = 7
    /\ chart.houses[1].signIndex = 7
    /\ chart.houses[6].signIndex = 0
    /\ chart.houses[12].signIndex = 6

\* the entry of chart.planets with the given name
ChartPlanet(name) ==
    chart.planets[CHOOSE i \in DOMAIN chart.planets : chart.planets[i].name = name]

\* the day count calculateChart computes for the request
RequestDayCount ==
    dateToJD(request.birthDate[1], request.birthDate[2], request.birthDate[3],
             (request.birthTime[1] * 60 + request.birthTime[2])
                 \div (MinutesPerDay \div TicksPerDay))

----------------------------------------------------------------------------
(* Properties of calculatePlanetLongitude and toSidereal *)

\* C10: the tropical longitude returned for each body and day count lies in [0, 360);
\* for a tropical longitude in [0, 360) and the ayanamsa of a date with a year of four
\* digits, toSidereal returns a longitude in [0, 360) that is the difference with at
\* most one full turn added or taken away
C10_LongitudesInRange ==
    /\ (call = "calculatePlanetLongitude" /\ returned) =>
          (position.longitude >= 0 /\ position.longitude < FullCircle)
    /\ (call = "toSidereal" /\ returned) =>
          /\ sidereal >= 0 /\ sidereal < FullCircle
          /\ sidereal \in {tropicalArg - ayanamsaArg,
                           tropicalArg - ayanamsaArg + FullCircle,
                           tropicalArg - ayanamsaArg - FullCircle}

C10_Witness ==
    /\ call = "toSidereal" /\ returned
    /\ tropicalArg < ayanamsaArg
    /\ ayanamsaArg > Deg(130)
    /\ sidereal = tropicalArg - ayanamsaArg + FullCircle

----------------------------------------------------------------------------
(* Properties of getSign and getNakshatra *)

SignReturned == call = "getSign" /\ returned
NakshatraReturned == call = "getNakshatra" /\ returned

\* C11: for every longitude L, getSign returns signIndex = floor(L/30) mod 12 and
\* degree = L mod 30, and signIndex * 30 + degree is L modulo 360
C11_SignRoundTrip ==
    SignReturned =>
        /\ signResult.signIndex * Deg(30) + signResult.degree = longitudeArg % FullCircle
        /\ signResult.signIndex = (longitudeArg \div Deg(30)) % 12
        /\ signResult.degree = longitudeArg % Deg(30)

C11_Witness ==
    /\ SignReturned
    /\ longitudeArg < 0
    /\ signResult.signIndex = 11
    /\ signResult.degree > 0
    /\ signResult.signIndex * Deg(30) + signResult.degree = longitudeArg + FullCircle

\* the index 0..26 of the mansion that getNakshatra returned
ReturnedMansionIndex == IndexOf(NAKSHATRAS, nakshatraResult.nakshatra)

\* the value of posInNakshatra in the call that returned
ReturnedPosition == SpanRemainder(normalizeAngle(longitudeArg))

\* C12: for every longitude L, the mansion index and the position within the mansion
\* that getNakshatra computes (calculateDashas computes them the same way) satisfy
\* mansionIndex * (360/27) + positionInMansion = L modulo 360
C12_MansionRoundTrip ==
    NakshatraReturned =>
        ReturnedMansionIndex * nakshatraSpan + ReturnedPosition = longitudeArg % FullCircle

\* C13: for every longitude, negative and of a turn or more included, getSign returns
\* signIndex in 0..11 and degree in [0, 30), and getNakshatra returns a mansion of
\* index 0..26 and a quarter in 1..4, which is floor(positionInMansion / (span/4)) + 1
\* and at most 4
C13_ClassificationRanges ==
    /\ SignReturned =>
          /\ signResult.signIndex \in 0..11
          /\ signResult.degree >= 0 /\ signResult.degree < Deg(30)
          /\ signResult.sign = ZODIAC_SIGNS[signResult.signIndex + 1]
    /\ NakshatraReturned =>
          /\ ReturnedMansionIndex \in 0..26
          /\ nakshatraResult.pada \in 1..4
          /\ LET quarter == (ReturnedPosition \div (nakshatraSpan \div 4)) + 1
             IN  nakshatraResult.pada = IF quarter > 4 THEN 4 ELSE quarter

C13_Witness ==
    /\ NakshatraReturned
    /\ longitudeArg >= FullCircle
    /\ ReturnedMansionIndex = 26
    /\ nakshatraResult.pada = 4
    /\ ReturnedPosition < nakshatraSpan

----------------------------------------------------------------------------
(* Properties of calculateLahiriAyanamsa *)

AyanamsaReturned == call = "calculateLahiriAyanamsa" /\ returned

\* a < b for two angles given as <<whole fine units, rest>>
AngleLess(a, b) == a[1] < b[1] \/ (a[1] = b[1] /\ a[2] < b[2])

\* C15: calculateLahiriAyanamsa is strictly increasing in the day count: the angle
\* returned for a day count is above that of every earlier day count and below that
\* of every later one
C15_AyanamsaStrictlyIncreasing ==
    AyanamsaReturned =>
        \A d \in NearDayCounts :
            /\ d < dayCountArg => AngleLess(AyanamsaExact(d), ayanamsaResult)
            /\ d > dayCountArg => AngleLess(ayanamsaResult, AyanamsaExact(d))

\* two day counts half an hour apart whose angles differ by less than a fine unit
C15_Witness ==
    /\ AyanamsaReturned
    /\ dayCountArg - 1 \in NearDayCounts
    /\ AyanamsaExact(dayCountArg - 1)[1] = ayanamsaResult[1]
    /\ AyanamsaExact(dayCountArg - 1)[2] < ayanamsaResult[2]
    /\ dayCountArg < (24150205 * TicksPerDay) \div 10

----------------------------------------------------------------------------
(* Properties of invocations of calculateChart *)

\* both invocations have returned
BothReturned == DOMAIN charts = Invocations

\* C16: two invocations of calculateChart with the same request, that of
\* testCalculation among them, return the same BirthChart
C16_SameRequestSameChart ==
    (BothReturned /\ requests[1] = requests[2]) => charts[1] = charts[2]

\* the same request but for its timezone
SameButTimezone(r1, r2) ==
    /\ r1.birthDate = r2.birthDate
    /\ r1.birthTime = r2.birthTime
    /\ r1.latitude = r2.latitude
    /\ r1.longitude = r2.longitude
    /\ r1.timezone # r2.timezone

\* C17: the timezone of the request is only echoed: two invocations whose requests
\* differ only in timezone return the same ascendant, the same nine bodies, the same
\* houses, the same dasha periods and the same ayanamsa, and each its own timezone
C17_TimezoneOnlyEchoed ==
    (BothReturned /\ SameButTimezone(requests[1], requests[2])) =>
        /\ charts[1].ascendant = charts[2].ascendant
        /\ charts[1].planets = charts[2].planets
        /\ charts[1].houses = charts[2].houses
        /\ charts[1].dashas = charts[2].dashas
        /\ charts[1].ayanamsa = charts[2].ayanamsa
        /\ charts[1].timezone = requests[1].timezone
        /\ charts[2].timezone = requests[2].timezone

C17_Witness ==
    /\ BothReturned
    /\ SameButTimezone(requests[1], requests[2])
    /\ requests[1].birthDate = <<2000, 1, 1>>
    /\ charts[1].timezone = "America/New_York"
    /\ charts[2].timezone = "UTC"
    /\ charts[1].planets = charts[2].planets
    /\ Len(charts[1].dashas) = 19

\* C18: in every returned chart the ascendant has house 1, whatever the birth
\* instant and the location
C18_AscendantInHouseOne ==
    ChartReturned => chart.ascendant.house = 1

C18_Witness ==
    /\ ChartReturned
    /\ chart.ascendant.house = 1
    /\ chart.ascendant.signIndex = 7
    /\ chart.ascendant.degree > 0
    /\ request.latitude < 0

\* C27: in every returned chart each of the nine bodies lies in the house whose
\* sign it occupies: the house entry numbered p.house has the sign index of p, and
\* p.signIndex * 30 + p.degree is p.longitude
C27_BodiesInHouseOfSign ==
    ChartReturned =>
        /\ Len(chart.planets) = 9
        /\ \A i \in 1..Len(chart.planets) :
              /\ chart.planets[i].house \in 1..12
              /\ \A h \in 1..12 :
                    chart.houses[h].number = chart.planets[i].house
                        => chart.houses[h].signIndex = chart.planets[i].signIndex
              /\ chart.planets[i].signIndex * Deg(30) + chart.planets[i].degree
                    = chart.planets[i].longitude

\* a body in the sign before the ascendant's (house 12) and one in the ascendant's
C27_Witness ==
    /\ ChartReturned
    /\ chart.ascendant.signIndex > 0
    /\ \E i, j \in 1..Len(chart.planets) :
          /\ chart.planets[i].house = 12
          /\ chart.planets[i].signIndex = chart.ascendant.signIndex - 1
          /\ chart.planets[i].degree > 0
          /\ chart.planets[j].house = 1
          /\ chart.planets[j].signIndex = chart.ascendant.signIndex

\* C19: the name of the ascendant of a returned chart is not the name of any of
\* the nine bodies of PLANETS
C19_AscendantNotABody ==
    ChartReturned => \A i \in 1..Len(PLANETS) : chart.ascendant.name # PLANETS[i]

----------------------------------------------------------------------------
(* Properties of the retrograde flag *)

PlanetLongitudeReturned == call = "calculatePlanetLongitude" /\ returned

\* |body longitude - Sun longitude| for the call that returned
Elongation == Abs(position.longitude - calculateSunLongitude(jdArg))

\* C22: the retrograde flag is false for Sun and Moon, true for Rahu and Ketu, for
\* Mercury and Venus true exactly when the elongation is below 30 or above 330
\* degrees, for Mars, Jupiter and Saturn true exactly when it is between 150 and
\* 210 degrees, both bounds excluded
C22_RetrogradeRule ==
    PlanetLongitudeReturned =>
        /\ planetArg \in {"Sun", "Moon"} => position.isRetrograde = FALSE
        /\ planetArg \in {"Rahu", "Ketu"} => position.isRetrograde = TRUE
        /\ planetArg \in {"Mercury", "Venus"} =>
              (position.isRetrograde <=> (Elongation < Deg(30) \/ Elongation > Deg(330)))
        /\ planetArg \in {"Mars", "Jupiter", "Saturn"} =>
              (position.isRetrograde <=> (Elongation > Deg(150) /\ Elongation < Deg(210)))

C22_Witness ==
    /\ PlanetLongitudeReturned
    /\ planetArg = "Saturn"
    /\ position.isRetrograde
    /\ Elongation > Deg(150)
    /\ Elongation < Deg(210)

----------------------------------------------------------------------------
(* Further properties of calculateDashas *)

\* C23: every returned period is non-empty and the list is ordered in time: each
\* period starts strictly before it ends, the first (partial) one included
C23_PeriodsNonEmpty ==
    Returned => \A i \in 1..Len(dashas) : dashas[i].startDate < dashas[i].endDate

\* the same calendar month, day and time of day, y years later
SameDayYearsLater(from, to, y) ==
    /\ getFullYear(to) = getFullYear(from) + y
    /\ getMonth(to) = getMonth(from)
    /\ getDate(to) = getDate(from)
    /\ TimeWithinDay(to) = TimeWithinDay(from)

\* the year-length of the body of a period
YearsOf(planet) ==
    DASHA_SEQUENCE[CHOOSE k \in 1..Len(DASHA_SEQUENCE) : DASHA_SEQUENCE[k].planet = planet].years

\* C25: each full period (every period but the first) ends on the calendar month,
\* day and time of day it starts on, its body's year-length later, and the period
\* nine places further starts exactly 120 calendar years later, for every birth
\* date, 29 February included
C25_FullPeriodsWholeYears ==
    Returned =>
        /\ \A i \in 2..Len(dashas) :
              SameDayYearsLater(dashas[i].startDate, dashas[i].endDate,
                                YearsOf(dashas[i].planet))
        /\ \A i \in 2..(Len(dashas) - 9) :
              SameDayYearsLater(dashas[i].startDate, dashas[i + 9].startDate,
                                TOTAL_DASHA_YEARS)

----------------------------------------------------------------------------
(* Further properties of calculateChart *)

\* C24: calculateDashas returns 19 periods, one partial and two cycles of nine, all
\* of level "maha"; the slice to 20 entries removes none, so chart.dashas is the
\* whole list generated for the chart's Moon and birth date
C24_NineteenPeriods ==
    ChartReturned =>
        /\ Len(calculateDashas(DASHA_SEQUENCE, ChartPlanet("Moon").longitude,
                               chart.birthDate)) = 19
        /\ chart.dashas = calculateDashas(DASHA_SEQUENCE, ChartPlanet("Moon").longitude,
                                          chart.birthDate)
        /\ Len(chart.dashas) = 19
        /\ \A i \in 1..Len(chart.dashas) : chart.dashas[i].level = "maha"

C24_Witness ==
    /\ ChartReturned
    /\ Len(chart.dashas) = 19
    /\ chart.dashas[1].startDate = chart.birthDate
    /\ chart.dashas[19].level = "maha"
    /\ chart.dashas[19].planet = chart.dashas[10].planet
    /\ chart.dashas[19].endDate > chart.dashas[10].endDate

----------------------------------------------------------------------------
(* Properties of dateToJD *)

DateReturned == call = "dateToJD" /\ returned

\* the calendar day after <<y, m, d>>
NextCalendarDay(date) ==
    IF date[3] < DaysInMonth(date[1], date[2]) THEN <<date[1], date[2], date[3] + 1>>
    ELSE IF date[2] < 12 THEN <<date[1], date[2] + 1, 1>>
    ELSE <<date[1] + 1, 1, 1>>

\* dateToJD of a date <<y, m, d>> at an hour given in ticks
DayCountOf(date, hour) == dateToJD(date[1], date[2], date[3], hour)

\* C26: over valid Gregorian dates the day count of the next calendar day, month
\* ends, year ends and leap days included, is exactly 1 greater; a later hour of the
\* same day adds hour/24; an earlier instant has a smaller day count; and
\* 2000-01-01 at 12:00 gives 2451545.0
C26_DayCountContinuous ==
    DateReturned =>
        /\ DayCountOf(NextCalendarDay(dateArg[1]), dateArg[2]) = dayCountResult + TicksPerDay
        /\ dayCountResult = DayCountOf(dateArg[1], 0) + dateArg[2]
        /\ \A h \in 0..(TicksPerDay - 1) :
              /\ h < dateArg[2] => DayCountOf(dateArg[1], h) < dayCountResult
              /\ dayCountResult < DayCountOf(NextCalendarDay(dateArg[1]), h)
        /\ (dateArg[1] = <<2000, 1, 1>> /\ dateArg[2] = TicksPerDay \div 2) =>
              dayCountResult = 2451545 * TicksPerDay

C26_Witness ==
    /\ DateReturned
    /\ dateArg[1] = <<2000, 2, 29>>
    /\ dateArg[2] = 47
    /\ NextCalendarDay(dateArg[1]) = <<2000, 3, 1>>
    /\ DayCountOf(<<2000, 3, 1>>, 0) = dayCountResult + 1


----------------------------------------------------------------------------
(* Properties of POST /generate *)

\* the date a birthDate in YYYY-MM-DD form names is a date of the Gregorian calendar
ValidGregorianDate(s) ==
    /\ DateFormat(s)
    /\ SplitNumbers(s, "-")[2] \in 1..12
    /\ SplitNumbers(s, "-")[3] \in 1..DaysInMonth(SplitNumbers(s, "-")[1],
                                                  SplitNumbers(s, "-")[2])

\* the time a birthTime in HH:MM form names is a time of the 24-hour clock
Valid24HourTime(s) ==
    /\ TimeFormat(s)
    /\ SplitNumbers(s, ":")[1] \in 0..23
    /\ SplitNumbers(s, ":")[2] \in 0..59

InvalidDateOrTime(b) ==
    \/ ("birthDate" \in DOMAIN b /\ ~ValidGregorianDate(b.birthDate))
    \/ ("birthTime" \in DOMAIN b /\ ~Valid24HourTime(b.birthTime))

\* C21: a POST /generate request whose birthDate is not a valid Gregorian date in
\* YYYY-MM-DD form or whose birthTime is not a valid 24-hour HH:MM time is answered
\* with status 400, calculateChart is not called and chartStorage is left as it was
C21_InvalidDateTimeRejected ==
    [][(call = "POST /generate" /\ ~returned /\ returned' /\ InvalidDateOrTime(body))
          => /\ response'.status = 400
             /\ UNCHANGED <<request, chart, chartStorage>>]_vars


----------------------------------------------------------------------------
(* Properties of the reading cache *)

\* caller c makes a call in this step
CallStep(c) == readings[c].pc # "awaiting" /\ readings'[c] # readings[c]

\* caller c calls clearChartCache(chartId) in this step
ClearStep(c, chartId) ==
    /\ readings[c].pc # "awaiting"
    /\ readings'[c].op = "clearChartCache"
    /\ readings'[c].chartId = chartId

\* C28: once a reading for a (chartId, category) key is in the cache, every call
\* of generateReading for that key with useCache = true returns the cached content
\* with cached: true without calling a provider, and the key stays in the cache
\* until clearChartCache(chartId) is called; a call whose provider call fails
\* throws and leaves the cache unchanged
C28_CachedUntilCleared ==
    [][/\ \A c \in Callers, chartId \in Uuids, category \in CalledCategories :
            ( /\ CallStep(c)
              /\ readings'[c].op = "generateReading"
              /\ readings'[c].chartId = chartId
              /\ readings'[c].category = category
              /\ readings'[c].useCache
              /\ getCacheKey(chartId, category) \in DOMAIN readingCache )
            => /\ readings'[c].pc = "returned"
               /\ readings'[c].result.cached
               /\ readings'[c].result.content
                     = readingCache[getCacheKey(chartId, category)].content
               /\ readingCache' = readingCache
       /\ \A chartId \in Uuids, category \in CalledCategories :
            ( /\ getCacheKey(chartId, category) \in DOMAIN readingCache
              /\ getCacheKey(chartId, category) \notin DOMAIN readingCache' )
            => \E c \in Callers : ClearStep(c, chartId)
       /\ \A c \in Callers :
            (readings[c].pc = "awaiting" /\ readings'[c].pc = "thrown")
            => readingCache' = readingCache]_vars

\* a reading cached by one caller was returned from the cache to the other, and it
\* is still cached
C28_Witness ==
    /\ call = "generateReading"
    /\ readings[1].pc = "returned"
    /\ readings[1].op = "generateReading"
    /\ ~readings[1].result.cached
    /\ readings[2].pc = "returned"
    /\ readings[2].op = "generateReading"
    /\ readings[2].useCache
    /\ readings[2].result.cached
    /\ readings[2].chartId = readings[1].chartId
    /\ readings[2].category = "love"
    /\ readings[1].category = "love"
    /\ getCacheKey(readings[2].chartId, "love") \in DOMAIN readingCache
    /\ readings[2].result.content = readingCache[getCacheKey(readings[2].chartId, "love")].content


----------------------------------------------------------------------------
(* Properties of the chat history *)

\* C29: after any sequence of addToChatHistory and clearChatHistory calls the
\* history stored for a session holds at most 50 messages, and they are the most
\* recently added messages of that session in the order they were added; calls
\* for one session do not change the history of another
C29_LastFiftyInOrder ==
    call = "addToChatHistory" =>
        \A s \in Sessions :
            LET history == StoredHistory(chatSessions, getSessionKey(s[1], s[2]))
            IN  /\ Len(history) <= 50
                /\ Len(history) = IF added[s] < 50 THEN added[s] ELSE 50
                /\ \A i \in 1..Len(history) :
                      history[i].content = added[s] - Len(history) + i

\* one session has had more than 50 messages added, another one message
C29_Witness ==
    /\ call = "addToChatHistory"
    /\ added[<<"uuid-a", "user-1">>] = 52
    /\ Len(chatSessions["uuid-a:user-1"]) = 50
    /\ chatSessions["uuid-a:user-1"][1].content = 3
    /\ chatSessions["uuid-a:user-1"][50].content = 52
    /\ added[<<"uuid-a", "">>] = 1
    /\ Len(chatSessions["uuid-a"]) = 1
    /\ added[<<"uuid-b", "user-1">>] = 0
    /\ "uuid-b:user-1" \notin DOMAIN chatSessions


----------------------------------------------------------------------------
(* Properties of startTrial *)

\* C30: once a startTrial call has set trialUsed for a user, every other
\* startTrial call for that user, one running concurrently included, returns
\* success: false and leaves the user's row unchanged, so that at most one call
\* for a user ever succeeds
C30_AtMostOneTrial ==
    [][\A c \in TrialCallers :
          ( /\ call = "startTrial"
            /\ trials[c].pc # "done"
            /\ trials'[c].pc = "done"
            /\ trials[c].userId \in DOMAIN users
            /\ users[trials[c].userId].trialUsed )
          => /\ ~trials'[c].result.success
             /\ users'[trials[c].userId] = users[trials[c].userId]]_vars

====
